---- MODULE Spec2Model ----
(***************************************************************************)
(* Model of the Twilio bulk-export CSV tool: the completion poller         *)
(* (pollExportJobCompletion), the concurrent day downloader                *)
(* (downloadCustomJobExports / downloadWithRetry), the transform           *)
(* (processFiles) and the orchestration (runAutomation).                   *)
(*                                                                         *)
(* Calendar days are modelled as the integers 1..MaxDay: the order of the  *)
(* YYYY-MM-DD strings is the order of the days they name.                  *)
(***************************************************************************)
EXTENDS Integers, Sequences, FiniteSets, TLC

VARIABLES
    \* ---- pollExportJobCompletion (export.js 318-439) ----
    pollPc,          \* "Idle" | "Initial" | "Waiting" | "Sleeping" | "Complete" | "TimedOut"
    jobSid,          \* the jobSid argument
    expectedDays,    \* the expectedDays argument
    maxWaitMinutes,  \* the maxWaitMinutes argument
    pollIntervalMs,  \* opts.pollIntervalMs ?? 5000
    initialWaitMs,   \* opts.initialWaitMs ?? 0
    elapsed,         \* let elapsed: the sum of the intervals slept so far
    fetched,         \* outcome of the getJob call of the last tick
    pollResult,      \* the job the poller returned
    remote,          \* what the export service answers, tick after tick
    ticks,           \* status checks made so far (exact up to Len(remote.first) + 1)
    \* ---- downloadCustomJobExports / downloadWithRetry (download.js) ----
    dlPc,            \* "Idle" | "Called" | "FanOut" | "Returned" | "Threw"
    jobIdentifier,   \* the jobIdentifier argument ("" when missing)
    window,          \* userStart / userEnd
    maxRetries,      \* config.maxRetries
    reconciled,      \* daysToDownload, emptyDaysInRange, totalDaysInRange, daysOutsideJobScope
    task,            \* one downloadWithRetry call per entry of daysToDownload
    results,         \* what each map callback resolved with
    completedCount,  \* let completedCount
    failedCount,     \* let failedCount
    files,           \* days with a file export_<day>.json.gz in the files folder
    summary,         \* successCount and failedDays of the download summary
    dlReturn,        \* "none" | "jobFolder" | "undefined" | "error"
    \* ---- processFiles (fileProcessor.js 21-212) ----
    procPc,          \* "Idle" | "Called" | "Returned" | "Threw" | "Crashed"
    procFolder,      \* the jobFolder argument: "jobFolder" (with its files folder)
                     \* | "undefined" | "missing" | "noFilesFolder"
    dir,             \* the files folder as readdir lists it
    allRecords,      \* let allRecords before the sort
    report,          \* the records in the order of the rows of export.csv
    procReturn,      \* what processFiles resolved with
    \* ---- runAutomation (part_001 156-328) ----
    pc,              \* "Idle" | "Connecting" | "Lookup" | "Creating" | "Polling"
                     \* | "Downloading" | "Transforming" | "Done"
    args,            \* the command line, parsed
    lookup,          \* what findExistingJob answered
    runJob,          \* let job: the jobSid in hand, "none" before
    raised,          \* the stage whose error the catch received
    result,          \* what the promise of runAutomation settled with
    listed,          \* how the job listing of findExistingJob ended:
                     \* "none" | "listed" | "failed"
    \* ---- a function called on its own ----
    given,           \* the function and its arguments
    answer           \* what it returned or threw

pollVars == <<pollPc, jobSid, expectedDays, maxWaitMinutes, pollIntervalMs,
              initialWaitMs, elapsed, fetched, pollResult, remote, ticks>>

dlVars == <<dlPc, jobIdentifier, window, maxRetries, reconciled, task, results,
            completedCount, failedCount, files, summary, dlReturn>>

procVars == <<procPc, procFolder, dir, allRecords, report, procReturn>>

runVars == <<pc, args, lookup, runJob, raised, result, listed>>

callVars == <<given, answer>>

vars == <<pollVars, dlVars, procVars, runVars, callVars>>

-----------------------------------------------------------------------------
(* Bounds of the model *)

MaxWaitMinutes == 2
MaxScript == 2
MaxDay == 2
MaxRetries == 1
MaxFiles == 3
MaxRunScript == 0

-----------------------------------------------------------------------------
(* Data *)

Min(a, b) == IF a < b THEN a ELSE b

\* processFiles has not returned
NoReturn == [kind |-> "none", count |-> 0]

\* no function called on its own
NoCall == [fn |-> "none"]

\* runAutomation has no arguments yet, and has not settled
NoArgs == [mode |-> "none", ident |-> "", wellFormed |-> TRUE, start |-> 0, end |-> 0]
NoResult ==
    [settled |-> "pending", success |-> FALSE, error |-> "none", recordCount |-> 0]

\* one DayDetail bucket as the remote service reports it; hasCount = FALSE
\* is a bucket without a count field
Bucket(s, c) == [status |-> s, count |-> c, hasCount |-> TRUE]
BucketNoCount(s) == [status |-> s, count |-> 0, hasCount |-> FALSE]

PollJob(sid, ds) == [jobSid |-> sid, hasDetails |-> TRUE, details |-> ds]
PollJobNoDetails(sid) == [jobSid |-> sid, hasDetails |-> FALSE, details |-> <<>>]
NoJob == [jobSid |-> "none", hasDetails |-> FALSE, details |-> <<>>]

\* detail lists the service may report for the polled job
DetailsZero == <<Bucket("Pending", 5)>>
DetailsTwo == <<Bucket("Completed", 1), Bucket("CompletedEmptyRecords", 1),
                Bucket("InProgress", 3)>>
DetailsThree == <<Bucket("Completed", 3), Bucket("Unknown", 2)>>
DetailsFive == <<Bucket("Completed", 3), Bucket("CompletedEmptyRecords", 2)>>
DetailsPartial == <<Bucket("Completed", 2), Bucket("Failed", 3)>>
DetailsFailedShort == <<Bucket("Completed", 1), Bucket("Failed", 1),
                        Bucket("Pending", 3)>>
DetailsNoCount == <<BucketNoCount("Completed"), Bucket("Failed", 1)>>

DetailChoices == {DetailsZero, DetailsTwo, DetailsThree, DetailsFive,
                  DetailsPartial, DetailsFailedShort, DetailsNoCount}

\* one answer of exportCustomJobs.list: a remote failure, or a listing
ListError == [ok |-> FALSE, jobs |-> <<>>]
Listing(js) == [ok |-> TRUE, jobs |-> js]

PolledSid == "JS1"
OtherSid == "JS2"

Responses ==
    {ListError,
     Listing(<<PollJob(OtherSid, DetailsFive)>>),
     Listing(<<PollJobNoDetails(PolledSid)>>)}
    \cup {Listing(<<PollJob(PolledSid, d)>>) : d \in DetailChoices}
    \cup {Listing(<<PollJob(OtherSid, DetailsFive), PollJob(PolledSid, DetailsTwo)>>)}

RECURSIVE SeqsUpTo(_, _)
SeqsUpTo(S, n) ==
    IF n = 0 THEN {<<>>}
    ELSE LET shorter == SeqsUpTo(S, n - 1)
         IN  shorter \cup {Append(s, x) : s \in shorter, x \in S}

\* the service's answers: first[k] at tick k, rest from then on
Scripts(n) == [first : SeqsUpTo(Responses, n), rest : Responses]
NoScript == [first |-> <<>>, rest |-> ListError]

-----------------------------------------------------------------------------
(* getJob, export.js 194-235 *)

\* export.js 210: getJob asks for the 20 most recent jobs
GetJobListLimit == 20

\* export.js 457: findExistingJob asks for 200 jobs
FindListLimit == 200

\* exportCustomJobs.list({ limit }): the first jobs the service holds, up to
\* the limit
List(jobs, limit) == SubSeq(jobs, 1, Min(Len(jobs), limit))

RECURSIVE FindBySid(_, _, _)
FindBySid(jobs, sid, i) ==
    IF i > Len(jobs) THEN 0
    ELSE IF jobs[i].jobSid = sid THEN i
    ELSE FindBySid(jobs, sid, i + 1)

\* [ok, job] for the jobs the service holds: ok = FALSE is the error getJob
\* throws (remote failure, or the job is not among the jobs listed)
GetJob(resp, sid) ==
    IF ~resp.ok THEN [ok |-> FALSE, job |-> NoJob]
    ELSE LET i == FindBySid(List(resp.jobs, GetJobListLimit), sid, 1)
         IN  IF i = 0 THEN [ok |-> FALSE, job |-> NoJob]
             ELSE [ok |-> TRUE, job |-> resp.jobs[i]]

-----------------------------------------------------------------------------
(* pollExportJobCompletion, export.js 318-439 *)

\* const count = detail.count || 0
Count(detail) == IF detail.hasCount THEN detail.count ELSE 0

RECURSIVE SumWhere(_, _, _)
SumWhere(details, statuses, i) ==
    IF i > Len(details) THEN 0
    ELSE (IF details[i].status \in statuses THEN Count(details[i]) ELSE 0)
         + SumWhere(details, statuses, i + 1)

\* the tallies of the forEach over job.details (export.js 348-363)
CompletedDays(details) == SumWhere(details, {"Completed", "CompletedEmptyRecords"}, 1)
DaysWithData(details) == SumWhere(details, {"Completed"}, 1)
EmptyDays(details) == SumWhere(details, {"CompletedEmptyRecords"}, 1)
FailedDays(details) == SumWhere(details, {"Failed"}, 1)
PendingDays(details) == SumWhere(details, {"Pending", "InProgress"}, 1)

\* a poller that wants more than the expected days before it returns
AllDaysReady_Strict(details, expected) == CompletedDays(details) > expected

\* export.js 396
AllDaysReady(details, expected) == CompletedDays(details) >= expected

\* the poller of the earlier revision (export.js 85-140): no partial success
PartialSuccess_Never(details, expected) == FALSE

\* export.js 412
PartialSuccess(details, expected) ==
    /\ FailedDays(details) > 0
    /\ CompletedDays(details) + FailedDays(details) >= expected

\* the tick returns the job (export.js 347, 396-420)
TickReturns(got, expected) ==
    /\ got.ok
    /\ got.job.hasDetails
    /\ \/ AllDaysReady(got.job.details, expected)
       \/ PartialSuccess(got.job.details, expected)

\* a maximum that always leaves room for a first status check
MaxWaitMs_AtLeastOneCheck(minutes) == IF minutes = 0 THEN 1 ELSE minutes * 60 * 1000

\* const maxWaitMs = maxWaitMinutes * 60 * 1000
MaxWaitMs(minutes) == minutes * 60 * 1000

\* a loop that checks once more when elapsed equals the maximum
LoopContinues_Inclusive(e, minutes) == e <= MaxWaitMs(minutes)

\* while (elapsed < maxWaitMs)
LoopContinues(e, minutes) == e < MaxWaitMs(minutes)

CurrentResponse ==
    IF ticks + 1 <= Len(remote.first) THEN remote.first[ticks + 1] ELSE remote.rest

\* export.js 325-328: the optional wait before the first check
PollInitialWait ==
    /\ pollPc = "Initial"
    /\ pollPc' = "Waiting"
    /\ UNCHANGED <<jobSid, expectedDays, maxWaitMinutes, pollIntervalMs,
                   initialWaitMs, elapsed, fetched, pollResult, remote, ticks>>

\* a status check without the try/catch of export.js 335, 426: the error
\* of getJob ends the poll
PollTick_ErrorAborts ==
    /\ pollPc = "Waiting"
    /\ LoopContinues(elapsed, maxWaitMinutes)
    /\ LET got == GetJob(CurrentResponse, jobSid)
       IN  /\ fetched' = got
           /\ IF ~got.ok
              THEN /\ pollPc' = "Error"
                   /\ pollResult' = pollResult
              ELSE IF TickReturns(got, expectedDays)
              THEN /\ pollPc' = "Complete"
                   /\ pollResult' = got.job
              ELSE /\ pollPc' = "Sleeping"
                   /\ pollResult' = pollResult
    /\ ticks' = Min(ticks + 1, Len(remote.first) + 1)
    /\ UNCHANGED <<jobSid, expectedDays, maxWaitMinutes, pollIntervalMs,
                   initialWaitMs, elapsed, remote>>

\* export.js 334-432: one status check
PollTick ==
    /\ pollPc = "Waiting"
    /\ LoopContinues(elapsed, maxWaitMinutes)
    /\ LET got == GetJob(CurrentResponse, jobSid)
       IN  /\ fetched' = got
           /\ IF TickReturns(got, expectedDays)
              THEN /\ pollPc' = "Complete"
                   /\ pollResult' = got.job
              ELSE /\ pollPc' = "Sleeping"
                   /\ pollResult' = pollResult
    /\ ticks' = Min(ticks + 1, Len(remote.first) + 1)
    /\ UNCHANGED <<jobSid, expectedDays, maxWaitMinutes, pollIntervalMs,
                   initialWaitMs, elapsed, remote>>

\* export.js 434-435
PollSleep ==
    /\ pollPc = "Sleeping"
    /\ elapsed' = elapsed + pollIntervalMs
    /\ pollPc' = "Waiting"
    /\ UNCHANGED <<jobSid, expectedDays, maxWaitMinutes, pollIntervalMs,
                   initialWaitMs, fetched, pollResult, remote, ticks>>

\* export.js 334, 438: the loop ends and the poller throws
PollTimeout ==
    /\ pollPc = "Waiting"
    /\ ~LoopContinues(elapsed, maxWaitMinutes)
    /\ pollPc' = "TimedOut"
    /\ UNCHANGED <<jobSid, expectedDays, maxWaitMinutes, pollIntervalMs,
                   initialWaitMs, elapsed, fetched, pollResult, remote, ticks>>

PollNext ==
    \/ PollInitialWait /\ UNCHANGED <<dlVars, procVars, runVars, callVars>>
    \/ PollTick /\ UNCHANGED <<dlVars, procVars, runVars, callVars>>
    \/ PollSleep /\ UNCHANGED <<dlVars, procVars, runVars, callVars>>
    \/ PollTimeout /\ UNCHANGED <<dlVars, procVars, runVars, callVars>>


-----------------------------------------------------------------------------
(* The day downloader, download.js *)

Days == 1..MaxDay

\* one detail of a listed job, with the days it names
DayBucket(s, ds) == [status |-> s, hasDays |-> TRUE, days |-> ds]
DayBucketNoDays(s) == [status |-> s, hasDays |-> FALSE, days |-> <<>>]

\* friendlyName is kept as the set of identifiers it contains as substrings
DlJob(sid, mentions, ds) ==
    [jobSid |-> sid, hasName |-> TRUE, nameMentions |-> mentions,
     hasDetails |-> TRUE, details |-> ds]

NoWindow == [has |-> FALSE, start |-> 0, end |-> 0]
Window(a, b) == [has |-> TRUE, start |-> a, end |-> b]

\* the days MaxDay, ..., 1: a bucket the service lists in descending order
Descending(n) == [i \in 1..n |-> n + 1 - i]

RECURSIVE Contains(_, _, _)
Contains(seq, x, i) ==
    IF i > Len(seq) THEN FALSE
    ELSE IF seq[i] = x THEN TRUE
    ELSE Contains(seq, x, i + 1)

\* an entry of detail.days that is not a string (download.js 69, 75)
NotAString == 0

\* the days of every bucket added without looking for the day in the set
AddAll_NoDedup(acc, ds, i) == acc \o ds

\* Set.add over a sequence of days: insertion order, each day once, the
\* entries that are not strings left out
RECURSIVE AddAll(_, _, _)
AddAll(acc, ds, i) ==
    IF i > Len(ds) THEN acc
    ELSE AddAll(IF ds[i] = NotAString \/ Contains(acc, ds[i], 1)
                THEN acc ELSE Append(acc, ds[i]), ds, i + 1)

\* download.js 66-80: the days of the buckets with the given status
RECURSIVE DaysOfStatus(_, _, _, _)
DaysOfStatus(details, status, i, acc) ==
    IF i > Len(details) THEN acc
    ELSE DaysOfStatus(details, status, i + 1,
                      IF details[i].status = status /\ details[i].hasDays
                      THEN AddAll(acc, details[i].days, 1)
                      ELSE acc)

\* download.js 60-91
ExtractDaysFromJob(job) ==
    IF job.hasDetails
    THEN [daysWithData |-> DaysOfStatus(job.details, "Completed", 1, <<>>),
          emptyDays |-> DaysOfStatus(job.details, "CompletedEmptyRecords", 1, <<>>)]
    ELSE [daysWithData |-> <<>>, emptyDays |-> <<>>]

\* progress.js 67-81: the days from startDay to endDay, both included
GenerateDaysBetweenDates(startDay, endDay) ==
    [i \in 1..(IF endDay >= startDay THEN endDay - startDay + 1 ELSE 0)
        |-> startDay + i - 1]

\* a filter that keeps every day
Filter_KeepsAll(seq, keep, i) == seq

\* download.js 262-263: filter(day => userDateSet.has(day))
RECURSIVE Filter(_, _, _)
Filter(seq, keep, i) ==
    IF i > Len(seq) THEN <<>>
    ELSE (IF seq[i] \in keep THEN <<seq[i]>> ELSE <<>>) \o Filter(seq, keep, i + 1)

\* Array.prototype.sort() of day strings: ascending
RECURSIVE InsertDay(_, _)
InsertDay(sorted, d) ==
    IF sorted = <<>> THEN <<d>>
    ELSE IF d < Head(sorted) THEN <<d>> \o sorted
    ELSE <<Head(sorted)>> \o InsertDay(Tail(sorted), d)

RECURSIVE SortDays(_, _, _)
SortDays(seq, i, acc) ==
    IF i > Len(seq) THEN acc ELSE SortDays(seq, i + 1, InsertDay(acc, seq[i]))

\* a reconciler that floors daysOutsideJobScope at zero
Reconcile_Floored(job, w) ==
    LET ex == ExtractDaysFromJob(job)
        range == GenerateDaysBetweenDates(w.start, w.end)
        rangeSet == {range[i] : i \in 1..Len(range)}
        inRange == Filter(ex.daysWithData, rangeSet, 1)
        emptyInRange == Filter(ex.emptyDays, rangeSet, 1)
        outside == Len(range) - Len(inRange) - Len(emptyInRange)
    IN  IF w.has
        THEN [daysToDownload |-> SortDays(inRange, 1, <<>>),
              emptyDaysInRange |-> emptyInRange,
              totalDaysInRange |-> Len(range),
              daysOutsideJobScope |-> IF outside < 0 THEN 0 ELSE outside]
        ELSE [daysToDownload |-> SortDays(ex.daysWithData, 1, <<>>),
              emptyDaysInRange |-> <<>>,
              totalDaysInRange |-> 0,
              daysOutsideJobScope |-> 0]

\* download.js 249-288: which days to download
Reconcile(job, w) ==
    LET ex == ExtractDaysFromJob(job)
        range == GenerateDaysBetweenDates(w.start, w.end)
        rangeSet == {range[i] : i \in 1..Len(range)}
        inRange == Filter(ex.daysWithData, rangeSet, 1)
        emptyInRange == Filter(ex.emptyDays, rangeSet, 1)
    IN  IF w.has
        THEN [daysToDownload |-> SortDays(inRange, 1, <<>>),
              emptyDaysInRange |-> emptyInRange,
              totalDaysInRange |-> Len(range),
              daysOutsideJobScope |-> Len(range) - Len(inRange) - Len(emptyInRange)]
        ELSE [daysToDownload |-> SortDays(ex.daysWithData, 1, <<>>),
              emptyDaysInRange |-> <<>>,
              totalDaysInRange |-> 0,
              daysOutsideJobScope |-> 0]

NothingReconciled ==
    [daysToDownload |-> <<>>, emptyDaysInRange |-> <<>>, totalDaysInRange |-> 0,
     daysOutsideJobScope |-> 0]

\* download.js 224-227: the first job with that jobSid, or whose friendlyName
\* includes the identifier
RECURSIVE FindMyJob(_, _, _)
FindMyJob(jobs, ident, i) ==
    IF i > Len(jobs) THEN 0
    ELSE IF jobs[i].jobSid = ident \/ (jobs[i].hasName /\ ident \in jobs[i].nameMentions)
         THEN i
    ELSE FindMyJob(jobs, ident, i + 1)

\* testConnection of ./client: resolves true, resolves false, or rejects
ConnectionOutcomes == {"connected", "refused", "rejected"}

\* what exportCustomJobs.list({limit: 400}) may answer to the downloader
DlDetailChoices ==
    {<<DayBucket("Completed", c), DayBucket("CompletedEmptyRecords", e),
       DayBucket("Failed", <<1>>), DayBucket("Completed", c2)>> :
        c \in {<<>>, Descending(MaxDay)}, e \in {<<>>, <<MaxDay>>},
        c2 \in {<<>>, <<1>>}}

DlListings ==
    {ListError, Listing(<<>>)}
    \cup {Listing(<<DlJob(PolledSid, {}, d)>>) : d \in DlDetailChoices}

NoError == [kind |-> "none", attempt |-> 0]

\* the map callback of download.js 308 has been entered for every day:
\* attempts++ (112) and the first day fetch (125) is under way
Dispatched(n) ==
    [i \in 1..n |-> [pc |-> "Attempting", attempts |-> 1, failures |-> 0,
                     lastError |-> NoError, thrown |-> NoError, delay |-> 0]]

\* a downloader that goes on to the fan-out with no day
NothingToDownload_Never(days) == FALSE

\* download.js 283: daysToDownload.length === 0
NothingToDownload(days) == Len(days) = 0

\* download.js 203-305: everything before the fan-out
DlSetup ==
    /\ dlPc = "Called"
    /\ \E conn \in ConnectionOutcomes, resp \in DlListings :
        LET i == FindMyJob(resp.jobs, jobIdentifier, 1)
            rec == Reconcile(resp.jobs[i], window)
            n == Len(rec.daysToDownload)
        IN  IF jobIdentifier = "" \/ conn # "connected" \/ ~resp.ok \/ i = 0
            THEN /\ dlPc' = "Threw"
                 /\ dlReturn' = "error"
                 /\ UNCHANGED <<reconciled, task, results>>
            ELSE IF NothingToDownload(rec.daysToDownload)
            THEN /\ dlPc' = "Returned"
                 /\ dlReturn' = "undefined"
                 /\ reconciled' = rec
                 /\ UNCHANGED <<task, results>>
            ELSE /\ dlPc' = "FanOut"
                 /\ dlReturn' = dlReturn
                 /\ reconciled' = rec
                 /\ task' = Dispatched(n)
                 /\ results' = [k \in 1..n |-> "pending"]
    /\ UNCHANGED <<jobIdentifier, window, maxRetries, completedCount, failedCount,
                   files, summary>>

\* the ways one attempt goes (download.js 125-168): the write stream
\* finishes, a request fails, no redirect URL is given, the write stream
\* fails, or the response body fails in mid-transfer
AttemptOutcomes == {"finish", "requestFailed", "noRedirect", "writeError", "bodyFailed"}

\* the write stream of download.js 147 was created
OpensFile(o) == o \in {"finish", "writeError", "bodyFailed"}

\* download.js 148-167: response.data.pipe(writer) ends the writer only when
\* the body ends, and the promise listens to the writer's 'finish' and
\* 'error' only: a body that fails leaves the promise pending
LeavesPending(o) == o = "bodyFailed"

\* a retry loop with one attempt too few
Exhausted_Early(attempts, retries) == attempts >= retries

\* download.js 110, 183: no attempt is left
Exhausted(attempts, retries) == attempts > retries

Terminal(t) == t.pc \in {"Succeeded", "Failed"}

\* one file for all days
TargetPath_Shared(dayStr) == <<"files", "export", ".json.gz">>

\* download.js 145-146: join(targetFolder, `export_${dayStr}.json.gz`)
TargetPath(dayStr) == <<"files", "export_", dayStr, ".json.gz">>

\* the base of the backoff, in milliseconds (download.js 187)
BaseDelayMs == 1000

\* the backoff of the earlier revision (part_002 108)
BackoffDelay_Linear(attempts) == BaseDelayMs * attempts

\* download.js 187: the wait after the failed attempt number attempts
BackoffDelay(attempts) == BaseDelayMs * 2 ^ (attempts - 1)

\* a day task whose failure rejects Promise.all: no try/catch in the callback
AttemptSettles_Rejects(i) ==
    /\ dlPc = "FanOut"
    /\ task[i].pc = "Attempting"
    /\ \E o \in AttemptOutcomes :
        LET t == task[i]
            err == [kind |-> o, attempt |-> t.attempts]
        IN  /\ files' = IF OpensFile(o)
                        THEN files \cup {reconciled.daysToDownload[i]} ELSE files
            /\ IF o = "finish"
               THEN /\ task' = [task EXCEPT ![i].pc = "Succeeded"]
                    /\ results' = [results EXCEPT ![i] = "ok"]
                    /\ completedCount' = completedCount + 1
                    /\ UNCHANGED <<failedCount, dlPc, dlReturn>>
               ELSE IF LeavesPending(o)
               THEN /\ task' = [task EXCEPT ![i].pc = "Unsettled"]
                    /\ UNCHANGED <<results, completedCount, failedCount, dlPc,
                                   dlReturn>>
               ELSE IF Exhausted(t.attempts, maxRetries)
               THEN /\ task' = [task EXCEPT ![i] =
                                  [pc |-> "Failed", attempts |-> t.attempts,
                                   failures |-> t.failures + 1,
                                   lastError |-> err, thrown |-> err,
                                   delay |-> t.delay]]
                    /\ dlPc' = "Threw"
                    /\ dlReturn' = "error"
                    /\ UNCHANGED <<results, completedCount, failedCount>>
               ELSE /\ task' = [task EXCEPT ![i] =
                                  [pc |-> "Backoff", attempts |-> t.attempts,
                                   failures |-> t.failures + 1,
                                   lastError |-> err, thrown |-> NoError,
                                   delay |-> BackoffDelay(t.attempts)]]
                    /\ UNCHANGED <<results, completedCount, failedCount, dlPc,
                                   dlReturn>>
    /\ UNCHANGED <<jobIdentifier, window, maxRetries, reconciled, summary>>

\* download.js 125-193 and 309-327: the attempt of task i under way ends; a
\* success is recorded by the callback, a failure is retried after the
\* backoff or, with no attempt left, thrown and recorded as null
AttemptSettles(i) ==
    /\ dlPc = "FanOut"
    /\ task[i].pc = "Attempting"
    /\ \E o \in AttemptOutcomes :
        LET t == task[i]
            err == [kind |-> o, attempt |-> t.attempts]
        IN  /\ files' = IF OpensFile(o)
                        THEN files \cup {reconciled.daysToDownload[i]} ELSE files
            /\ IF o = "finish"
               THEN /\ task' = [task EXCEPT ![i].pc = "Succeeded"]
                    /\ results' = [results EXCEPT ![i] = "ok"]
                    /\ completedCount' = completedCount + 1
                    /\ failedCount' = failedCount
               ELSE IF LeavesPending(o)
               THEN /\ task' = [task EXCEPT ![i].pc = "Unsettled"]
                    /\ UNCHANGED <<results, completedCount, failedCount>>
               ELSE IF Exhausted(t.attempts, maxRetries)
               THEN /\ task' = [task EXCEPT ![i] =
                                  [pc |-> "Failed", attempts |-> t.attempts,
                                   failures |-> t.failures + 1,
                                   lastError |-> err, thrown |-> err,
                                   delay |-> t.delay]]
                    /\ results' = [results EXCEPT ![i] = "null"]
                    /\ failedCount' = failedCount + 1
                    /\ completedCount' = completedCount
               ELSE /\ task' = [task EXCEPT ![i] =
                                  [pc |-> "Backoff", attempts |-> t.attempts,
                                   failures |-> t.failures + 1,
                                   lastError |-> err, thrown |-> NoError,
                                   delay |-> BackoffDelay(t.attempts)]]
                    /\ UNCHANGED <<results, completedCount, failedCount>>
    /\ UNCHANGED <<dlPc, jobIdentifier, window, maxRetries, reconciled, summary,
                   dlReturn>>

\* download.js 187-189, 110-112: the backoff ends, the next attempt starts
BackoffEnds(i) ==
    /\ dlPc = "FanOut"
    /\ task[i].pc = "Backoff"
    /\ task' = [task EXCEPT ![i].pc = "Attempting", ![i].attempts = @ + 1]
    /\ UNCHANGED <<dlPc, jobIdentifier, window, maxRetries, reconciled, results,
                   completedCount, failedCount, files, summary, dlReturn>>

NoSummary == [made |-> FALSE, successCount |-> 0, failedDays |-> <<>>]

\* a summary that lists the failed days last first
RECURSIVE FailedDaysOf_Reversed(_, _, _)
FailedDaysOf_Reversed(days, res, i) ==
    IF i > Len(days) THEN <<>>
    ELSE FailedDaysOf_Reversed(days, res, i + 1)
         \o (IF res[i] = "null" THEN <<days[i]>> ELSE <<>>)

\* download.js 340: daysToDownload.filter((day, index) => results[index] === null)
RECURSIVE FailedDaysOf(_, _, _)
FailedDaysOf(days, res, i) ==
    IF i > Len(days) THEN <<>>
    ELSE (IF res[i] = "null" THEN <<days[i]>> ELSE <<>>) \o FailedDaysOf(days, res, i + 1)

\* download.js 339-340
SummaryOf(days, res) ==
    [made |-> TRUE,
     successCount |-> Cardinality({i \in 1..Len(res) : res[i] # "null"}),
     failedDays |-> FailedDaysOf(days, res, 1)]

\* a downloader that goes on as soon as one day task has settled
DlSummary_FirstSettled ==
    /\ dlPc = "FanOut"
    /\ \E i \in 1..Len(task) : Terminal(task[i])
    /\ summary' = SummaryOf(reconciled.daysToDownload, results)
    /\ dlPc' = "Returned"
    /\ dlReturn' = "jobFolder"
    /\ UNCHANGED <<jobIdentifier, window, maxRetries, reconciled, task, results,
                   completedCount, failedCount, files>>

\* download.js 330-368: Promise.all has resolved, the summary, the return
DlSummary ==
    /\ dlPc = "FanOut"
    /\ \A i \in 1..Len(task) : Terminal(task[i])
    /\ summary' = SummaryOf(reconciled.daysToDownload, results)
    /\ dlPc' = "Returned"
    /\ dlReturn' = "jobFolder"
    /\ UNCHANGED <<jobIdentifier, window, maxRetries, reconciled, task, results,
                   completedCount, failedCount, files>>

\* download.js 285, 368: what a caller can read from the value returned, a
\* path string or undefined
ReturnFields(ret) == IF ret = "jobFolder" THEN {"jobFolder"} ELSE {}

WindowChoices == {NoWindow, Window(1, MaxDay), Window(MaxDay, MaxDay)}

DlInit ==
    /\ dlPc = "Called"
    /\ jobIdentifier \in {"", PolledSid}
    /\ window \in WindowChoices
    /\ maxRetries \in 0..(MaxRetries + 2)
    /\ reconciled = NothingReconciled
    /\ task = <<>>
    /\ results = <<>>
    /\ completedCount = 0
    /\ failedCount = 0
    /\ files = {}
    /\ summary = NoSummary
    /\ dlReturn = "none"
    \* processFiles is not called
    /\ procPc = "Idle"
    /\ procFolder = "undefined"
    /\ dir = <<>>
    /\ allRecords = <<>>
    /\ report = <<>>
    /\ procReturn = NoReturn
    \* the poller is not called
    /\ pollPc = "Idle"
    /\ jobSid = "none"
    /\ expectedDays = 0
    /\ maxWaitMinutes = 0
    /\ pollIntervalMs = 0
    /\ initialWaitMs = 0
    /\ elapsed = 0
    /\ fetched = [ok |-> FALSE, job |-> NoJob]
    /\ pollResult = NoJob
    /\ remote = NoScript
    /\ ticks = 0
    \* runAutomation is not running
    /\ pc = "Idle"
    /\ args = NoArgs
    /\ lookup = "none"
    /\ runJob = "none"
    /\ raised = "none"
    /\ result = NoResult
    /\ listed = "none"
    \* no function is called on its own
    /\ given = NoCall
    /\ answer = NoCall

DlNext ==
    \/ DlSetup /\ UNCHANGED <<pollVars, procVars, runVars, callVars>>
    \/ \E i \in 1..Len(task) : AttemptSettles(i) /\ UNCHANGED <<pollVars, procVars, runVars, callVars>>
    \/ \E i \in 1..Len(task) : BackoffEnds(i) /\ UNCHANGED <<pollVars, procVars, runVars, callVars>>
    \/ DlSummary /\ UNCHANGED <<pollVars, procVars, runVars, callVars>>

SpecDL == DlInit /\ [][DlNext]_vars

-----------------------------------------------------------------------------
(* processFiles, fileProcessor.js 21-212 *)

\* fileDate of a file whose name does not match export_YYYY-MM-DD.json.gz
\* (fileProcessor.js 52-53: null)
NoDate == 0

\* at most this many malformed lines of one file are read (fileProcessor.js 89)
ParseErrorCap == 10

\* a file of the files folder: the day its name carries (NoDate if none),
\* whether its name ends with .json.gz, whether reading or gunzipping it
\* fails, and its lines ("record": a JSON object, "blank", "malformed")
File(t, g, b, ls) == [tag |-> t, gz |-> g, broken |-> b, lines |-> ls]

\* fileProcessor.js 39
RECURSIVE JsonGzFiles(_, _)
JsonGzFiles(listing, i) ==
    IF i > Len(listing) THEN <<>>
    ELSE (IF listing[i].gz THEN <<i>> ELSE <<>>) \o JsonGzFiles(listing, i + 1)

\* a reader that gives up only at the line after the last tolerated one
RECURSIVE ParseLines_StopsLate(_, _, _, _)
ParseLines_StopsLate(f, fileIndex, k, errorCount) ==
    IF k > Len(f.lines) THEN <<>>
    ELSE IF f.lines[k] = "blank" THEN ParseLines_StopsLate(f, fileIndex, k + 1, errorCount)
    ELSE IF f.lines[k] = "record"
         THEN <<[file |-> fileIndex, line |-> k, fileDate |-> f.tag]>>
              \o ParseLines_StopsLate(f, fileIndex, k + 1, errorCount)
    ELSE IF errorCount + 1 > ParseErrorCap THEN <<>>
    ELSE ParseLines_StopsLate(f, fileIndex, k + 1, errorCount + 1)

\* fileProcessor.js 73-94: the records of the lines from k on
RECURSIVE ParseLines(_, _, _, _)
ParseLines(f, fileIndex, k, errorCount) ==
    IF k > Len(f.lines) THEN <<>>
    ELSE IF f.lines[k] = "blank" THEN ParseLines(f, fileIndex, k + 1, errorCount)
    ELSE IF f.lines[k] = "record"
         THEN <<[file |-> fileIndex, line |-> k, fileDate |-> f.tag]>>
              \o ParseLines(f, fileIndex, k + 1, errorCount)
    ELSE IF errorCount + 1 >= ParseErrorCap THEN <<>>
    ELSE ParseLines(f, fileIndex, k + 1, errorCount + 1)

\* fileProcessor.js 49-111: the records of one file; none if its stream fails
FileRecords(f, fileIndex) ==
    IF f.broken THEN <<>> ELSE ParseLines(f, fileIndex, 1, 0)

\* fileProcessor.js 114-115: Promise.all keeps the order of jsonGzFiles
RECURSIVE Flat(_, _, _)
Flat(listing, idxs, k) ==
    IF k > Len(idxs) THEN <<>>
    ELSE FileRecords(listing[idxs[k]], idxs[k]) \o Flat(listing, idxs, k + 1)

\* fileProcessor.js 123-127: a null fileDate is neither < nor > a day string
Compare(a, b) ==
    IF a.fileDate = NoDate \/ b.fileDate = NoDate THEN 0
    ELSE IF a.fileDate < b.fileDate THEN 0 - 1
    ELSE IF a.fileDate > b.fileDate THEN 1
    ELSE 0

\* Array.prototype.sort as the runtime computes it for an array of fewer
\* than 64 elements: the initial run is found (and reversed if strictly
\* descending), the rest is inserted with a binary search.
RECURSIVE RunEnd(_, _, _)
RunEnd(a, idx, descending) ==
    IF idx > Len(a) THEN idx - 1
    ELSE IF descending /\ Compare(a[idx], a[idx - 1]) >= 0 THEN idx - 1
    ELSE IF ~descending /\ Compare(a[idx], a[idx - 1]) < 0 THEN idx - 1
    ELSE RunEnd(a, idx + 1, descending)

ReverseFirst(a, n) == [i \in 1..Len(a) |-> IF i <= n THEN a[n + 1 - i] ELSE a[i]]

RECURSIVE InsertionPoint(_, _, _, _)
InsertionPoint(a, pivot, left, right) ==
    IF left >= right THEN left
    ELSE LET mid == left + ((right - left) \div 2)
         IN  IF Compare(pivot, a[mid]) < 0
             THEN InsertionPoint(a, pivot, left, mid)
             ELSE InsertionPoint(a, pivot, mid + 1, right)

RECURSIVE BinaryInsertionSort(_, _)
BinaryInsertionSort(a, start) ==
    IF start > Len(a) THEN a
    ELSE LET at == InsertionPoint(a, a[start], 1, start)
             moved == [i \in 1..Len(a) |->
                         IF i < at \/ i > start THEN a[i]
                         ELSE IF i = at THEN a[start]
                         ELSE a[i - 1]]
         IN  BinaryInsertionSort(moved, start + 1)

SortRecords(a) ==
    IF Len(a) < 2 THEN a
    ELSE LET descending == Compare(a[2], a[1]) < 0
             runLength == RunEnd(a, 3, descending)
             run == IF descending THEN ReverseFirst(a, runLength) ELSE a
         IN  BinaryInsertionSort(run, runLength + 1)

\* fileProcessor.js 61-63: some file's read stream or gunzip stream fails.
\* The failure reaches the catch of 103 only when it is raised inside the
\* loop over rl; fileStream.pipe(gunzip) leaves fileStream without an
\* 'error' listener, and an 'error' event nobody listens to is thrown
\* outside every try block and ends the process.
StreamFails(listing, idxs) == \E k \in 1..Len(idxs) : listing[idxs[k]].broken

\* the rows of an export.csv that an earlier run left in the job folder
StaleReport == <<[file |-> 0, line |-> 0, fileDate |-> NoDate]>>

\* a transform that writes a report without rows when no record survives
ProcessFiles_WritesEmptyReport ==
    /\ procPc = "Called"
    /\ \E written \in BOOLEAN, caught \in BOOLEAN :
        LET idxs == JsonGzFiles(dir, 1)
            merged == Flat(dir, idxs, 1)
        IN  IF procFolder # "jobFolder"
            THEN /\ procPc' = "Threw"
                 /\ procReturn' = [kind |-> "error", count |-> 0]
                 /\ UNCHANGED <<allRecords, report>>
            ELSE IF StreamFails(dir, idxs) /\ ~caught
            THEN /\ procPc' = "Crashed"
                 /\ UNCHANGED <<allRecords, report, procReturn>>
            ELSE IF Len(idxs) = 0 \/ Len(merged) = 0
            THEN /\ procPc' = "Returned"
                 /\ procReturn' = [kind |-> "noData", count |-> 0]
                 /\ allRecords' = merged
                 /\ report' = <<>>
            ELSE /\ allRecords' = merged
                 /\ report' = SortRecords(merged)
                 /\ IF written
                    THEN /\ procPc' = "Returned"
                         /\ procReturn' = [kind |-> "written", count |-> Len(merged)]
                    ELSE /\ procPc' = "Threw"
                         /\ procReturn' = [kind |-> "error", count |-> 0]
    /\ UNCHANGED <<procFolder, dir>>

\* fileProcessor.js 21-212
ProcessFiles ==
    /\ procPc = "Called"
    /\ \E written \in BOOLEAN, caught \in BOOLEAN :
        LET idxs == JsonGzFiles(dir, 1)
            merged == Flat(dir, idxs, 1)
        IN  IF procFolder # "jobFolder"
            THEN /\ procPc' = "Threw"
                 /\ procReturn' = [kind |-> "error", count |-> 0]
                 /\ UNCHANGED <<allRecords, report>>
            ELSE IF StreamFails(dir, idxs) /\ ~caught
            THEN /\ procPc' = "Crashed"
                 /\ UNCHANGED <<allRecords, report, procReturn>>
            ELSE IF Len(idxs) = 0 \/ Len(merged) = 0
            THEN /\ procPc' = "Returned"
                 /\ procReturn' = [kind |-> "noData", count |-> 0]
                 /\ allRecords' = merged
                 /\ report' = report
            ELSE /\ allRecords' = merged
                 /\ report' = SortRecords(merged)
                 /\ IF written
                    THEN /\ procPc' = "Returned"
                         /\ procReturn' = [kind |-> "written", count |-> Len(merged)]
                    ELSE /\ procPc' = "Threw"
                         /\ procReturn' = [kind |-> "error", count |-> 0]
    /\ UNCHANGED <<procFolder, dir>>

LineChoices == {<<"record">>, <<"record", "record">>, <<"malformed", "record">>,
                <<"blank">>, <<"malformed">>}

FileChoices ==
    {File(t, TRUE, FALSE, ls) : t \in {NoDate} \cup Days, ls \in LineChoices}
    \cup {File(1, FALSE, FALSE, <<"record">>), File(1, TRUE, TRUE, <<"record">>)}

ProcInit ==
    /\ procPc = "Called"
    /\ procFolder \in {"jobFolder", "undefined", "missing", "noFilesFolder"}
    /\ dir \in IF procFolder = "jobFolder" THEN SeqsUpTo(FileChoices, MaxFiles) ELSE {<<>>}
    /\ allRecords = <<>>
    /\ report \in {<<>>, StaleReport}
    /\ procReturn = NoReturn
    \* the poller is not called
    /\ pollPc = "Idle"
    /\ jobSid = "none"
    /\ expectedDays = 0
    /\ maxWaitMinutes = 0
    /\ pollIntervalMs = 0
    /\ initialWaitMs = 0
    /\ elapsed = 0
    /\ fetched = [ok |-> FALSE, job |-> NoJob]
    /\ pollResult = NoJob
    /\ remote = NoScript
    /\ ticks = 0
    \* the downloader is not called
    /\ dlPc = "Idle"
    /\ jobIdentifier = ""
    /\ window = NoWindow
    /\ maxRetries = 0
    /\ reconciled = NothingReconciled
    /\ task = <<>>
    /\ results = <<>>
    /\ completedCount = 0
    /\ failedCount = 0
    /\ files = {}
    /\ summary = NoSummary
    /\ dlReturn = "none"
    \* runAutomation is not running
    /\ pc = "Idle"
    /\ args = NoArgs
    /\ lookup = "none"
    /\ runJob = "none"
    /\ raised = "none"
    /\ result = NoResult
    /\ listed = "none"
    \* no function is called on its own
    /\ given = NoCall
    /\ answer = NoCall

ProcNext == ProcessFiles /\ UNCHANGED <<pollVars, dlVars, runVars, callVars>>

SpecProc == ProcInit /\ [][ProcNext]_vars

-----------------------------------------------------------------------------
(* runAutomation, part_001 156-328 *)

\* the poller as runAutomation calls it (part_001 235, 237, 238)
RunMaxWaitMinutes == 60
RunPollIntervalMs == 30000
RunInitialWaitMs == 60000

\* validateDateRange, progress.js 111
MaxRangeDays == 366

\* the command line after part_001 170-207: the mode, the job identifier of
\* a one-argument call, whether both dates are YYYY-MM-DD, and the dates (of
\* the previous week or month, or the ones given)
Args(m, id, ok, a, b) ==
    [mode |-> m, ident |-> id, wellFormed |-> ok, start |-> a, end |-> b]

ArgChoices ==
    {Args("week", "", TRUE, 1, MaxDay),
     Args("month", "", TRUE, 1, MaxDay),
     Args("job", PolledSid, TRUE, 0, 0),
     Args("dates", "", TRUE, 1, MaxDay),
     Args("dates", "", TRUE, MaxDay, MaxDay),
     Args("dates", "", TRUE, MaxDay, MaxDay - 1),
     Args("dates", "", FALSE, 1, MaxDay),
     Args("dates", "", TRUE, 1, MaxRangeDays + 1),
     Args("named", "", TRUE, 1, MaxDay)}

\* part_001 220, progress.js 110
RangeDays(a) == a.end - a.start + 1

\* a runAutomation that takes its dates as they come
ArgumentsValid_Unchecked(a) == TRUE

\* validateDate and validateDateRange (progress.js 95-118) as part_001
\* 201-203 calls them
ArgumentsValid(a) ==
    a.mode \in {"dates", "named"} =>
        /\ a.wellFormed
        /\ RangeDays(a) <= MaxRangeDays
        /\ RangeDays(a) >= 1

\* part_001 294-302 and 214
Success(a, n) ==
    [settled |-> "resolved", success |-> TRUE, error |-> "none",
     recordCount |-> IF a.mode = "job" THEN 0 ELSE n]

\* a runAutomation without the catch of part_001 305
Failure_Rejects(stage) ==
    [settled |-> "rejected", success |-> FALSE, error |-> stage, recordCount |-> 0]

\* part_001 305-327
Failure(stage) ==
    [settled |-> "resolved", success |-> FALSE, error |-> stage, recordCount |-> 0]

Fails(stage) ==
    /\ pc' = "Done"
    /\ raised' = stage
    /\ result' = Failure(stage)
    /\ UNCHANGED <<args, lookup, runJob>>

\* a job of exportCustomJobs.list as findExistingJob reads it
RangeJob(sid, a, b, has, ds) ==
    [jobSid |-> sid, startDay |-> a, endDay |-> b, hasDetails |-> has, details |-> ds]

LookupDetailChoices == {DetailsZero, DetailsFive, DetailsNoCount}

\* the jobs the service may hold when findExistingJob lists them
LookupListings(a, b) ==
    {ListError, Listing(<<>>),
     Listing(<<RangeJob(OtherSid, a, b + 1, TRUE, DetailsFive)>>),
     Listing(<<RangeJob(PolledSid, a, b, FALSE, <<>>)>>)}
    \cup {Listing(<<RangeJob(OtherSid, a, b + 1, TRUE, DetailsFive),
                    RangeJob(PolledSid, a, b, TRUE, d)>>) : d \in LookupDetailChoices}

\* a search that keeps the last job of that range
RECURSIVE FindInRange_Last(_, _, _, _)
FindInRange_Last(jobs, a, b, i) ==
    IF i > Len(jobs) THEN 0
    ELSE LET later == FindInRange_Last(jobs, a, b, i + 1)
         IN  IF later # 0 THEN later
             ELSE IF jobs[i].startDay = a /\ jobs[i].endDay = b THEN i
             ELSE 0

\* export.js 464-466: the first job of that range, from position i on
FindInRange(jobs, a, b, i) ==
    LET hits == {k \in i..Len(jobs) : jobs[k].startDay = a /\ jobs[k].endDay = b}
    IN  IF hits = {} THEN 0
        ELSE CHOOSE k \in hits : \A other \in hits : k <= other

\* export.js 241-275: a count that is missing makes the sum NaN, and
\* NaN >= expectedDays is false
IsJobComplete(j, expected) ==
    /\ j.hasDetails
    /\ \A i \in 1..Len(j.details) :
          j.details[i].status \in {"Completed", "CompletedEmptyRecords"}
              => j.details[i].hasCount
    /\ CompletedDays(j.details) >= expected

\* part_001 231-240, 266-275: the call, up to the first await of the poller
CallPoller(sid, n) ==
    /\ pollPc' = "Initial"
    /\ jobSid' = sid
    /\ expectedDays' = n
    /\ maxWaitMinutes' = RunMaxWaitMinutes
    /\ pollIntervalMs' = RunPollIntervalMs
    /\ initialWaitMs' = RunInitialWaitMs
    /\ elapsed' = 0
    /\ fetched' = [ok |-> FALSE, job |-> NoJob]
    /\ pollResult' = NoJob
    /\ remote' \in Scripts(MaxRunScript)
    /\ ticks' = 0

\* part_001 213, 279-283: the call, up to the first await of the downloader
CallDownloader(ident, w) ==
    /\ dlPc' = "Called"
    /\ jobIdentifier' = ident
    /\ window' = w
    /\ maxRetries' = MaxRetries
    /\ UNCHANGED <<reconciled, task, results, completedCount, failedCount, files,
                   summary, dlReturn>>

\* part_001 159-215: testConnection has answered, the arguments are read
ConnectionTested ==
    /\ pc = "Connecting"
    /\ \E conn \in ConnectionOutcomes :
        IF conn # "connected"
        THEN Fails("connection") /\ UNCHANGED listed /\ UNCHANGED dlVars
        ELSE IF ~ArgumentsValid(args)
        THEN Fails("arguments") /\ UNCHANGED listed /\ UNCHANGED dlVars
        ELSE IF args.mode = "job"
        THEN /\ pc' = "Downloading"
             /\ CallDownloader(args.ident, NoWindow)
             /\ UNCHANGED <<args, listed, lookup, runJob, raised, result>>
        ELSE /\ pc' = "Lookup"
             /\ UNCHANGED <<args, listed, lookup, runJob, raised, result, dlVars>>
    /\ UNCHANGED <<pollVars, procVars, callVars>>

\* no error, no job of the range
NotFound == [kind |-> "notFound", jobSid |-> "none", index |-> 0, needsWaiting |-> FALSE]

\* export.js 483-494: the error of the listing, wrapped and thrown
LookupError == [kind |-> "error", jobSid |-> "none", index |-> 0, needsWaiting |-> FALSE]

\* findExistingJob as it was first written: the error of the listing is
\* logged and null is returned
FindExistingJob_Swallows(resp, hasResource, a, b, expected) ==
    LET i == FindInRange(List(resp.jobs, FindListLimit), a, b, 1)
    IN  IF ~hasResource \/ a = 0 \/ b = 0 \/ ~resp.ok THEN NotFound
        ELSE IF i = 0 THEN NotFound
        ELSE [kind |-> "found", jobSid |-> resp.jobs[i].jobSid, index |-> i,
              needsWaiting |-> ~IsJobComplete(resp.jobs[i], expected)]

\* export.js 445-495: a missing argument (startDate, endDate as 0) or a
\* failed listing throws; else the first job of the range, or null
FindExistingJob(resp, hasResource, a, b, expected) ==
    LET i == FindInRange(List(resp.jobs, FindListLimit), a, b, 1)
    IN  IF ~hasResource \/ a = 0 \/ b = 0 \/ ~resp.ok THEN LookupError
        ELSE IF i = 0 THEN NotFound
        ELSE [kind |-> "found", jobSid |-> resp.jobs[i].jobSid, index |-> i,
              needsWaiting |-> ~IsJobComplete(resp.jobs[i], expected)]

\* part_001 223-241 and export.js 445-495: findExistingJob has answered
LookupAnswered ==
    /\ pc = "Lookup"
    /\ \E resp \in LookupListings(args.start, args.end) :
        LET found == FindExistingJob(resp, TRUE, args.start, args.end, RangeDays(args))
        IN  /\ listed' = IF resp.ok THEN "listed" ELSE "failed"
            /\ IF found.kind = "error"
               THEN Fails("lookup") /\ UNCHANGED <<pollVars, dlVars>>
               ELSE IF found.kind = "notFound"
               THEN /\ pc' = "Creating"
                    /\ lookup' = "notFound"
                    /\ UNCHANGED <<args, runJob, raised, result, pollVars, dlVars>>
               ELSE IF ~found.needsWaiting
               THEN /\ pc' = "Downloading"
                    /\ lookup' = "complete"
                    /\ runJob' = found.jobSid
                    /\ CallDownloader(found.jobSid, Window(args.start, args.end))
                    /\ UNCHANGED <<args, raised, result, pollVars>>
               ELSE /\ pc' = "Polling"
                    /\ lookup' = "needsWaiting"
                    /\ runJob' = found.jobSid
                    /\ CallPoller(found.jobSid, RangeDays(args))
                    /\ UNCHANGED <<args, raised, result, dlVars>>
    /\ UNCHANGED <<procVars, callVars>>

\* a runAutomation that downloads the job it has just created
JobCreated_DownloadsAtOnce ==
    /\ pc = "Creating"
    /\ \E created \in BOOLEAN :
        IF ~created
        THEN Fails("creation") /\ UNCHANGED listed /\ UNCHANGED dlVars
        ELSE /\ pc' = "Downloading"
             /\ runJob' = PolledSid
             /\ CallDownloader(PolledSid, Window(args.start, args.end))
             /\ UNCHANGED <<args, listed, lookup, raised, result>>
    /\ UNCHANGED <<pollVars, procVars, callVars>>

\* the arguments of createExportJob: which of them are given
CreateArgs(r, a, b, f) ==
    [resourceType |-> r, startDay |-> a, endDay |-> b, friendlyName |-> f]

AllGiven == CreateArgs(TRUE, TRUE, TRUE, TRUE)

\* how the remote exportCustomJobs.create ends
CreateOutcomes == {"created", "rejected"}

CreateFailed(cause, sent) ==
    [kind |-> "error", wrapper |-> "Failed to create export job", cause |-> cause,
     submitted |-> sent, jobSid |-> "none"]

\* createExportJob as it was first written: whatever is given is submitted
CreateExportJob_Unchecked(p, outcome) ==
    IF outcome = "rejected" THEN CreateFailed("remote", TRUE)
    ELSE [kind |-> "job", wrapper |-> "", cause |-> "", submitted |-> TRUE,
          jobSid |-> PolledSid]

\* export.js 281-312
CreateExportJob(p, outcome) ==
    IF ~p.resourceType \/ ~p.startDay \/ ~p.endDay \/ ~p.friendlyName
    THEN CreateFailed("missing", FALSE)
    ELSE IF outcome = "rejected" THEN CreateFailed("remote", TRUE)
    ELSE [kind |-> "job", wrapper |-> "", cause |-> "", submitted |-> TRUE,
          jobSid |-> PolledSid]

\* part_001 243-276 and export.js 281-312: createExportJob has answered
JobCreated ==
    /\ pc = "Creating"
    /\ \E outcome \in CreateOutcomes :
        LET created == CreateExportJob(AllGiven, outcome)
        IN  IF created.kind = "error"
            THEN Fails("creation") /\ UNCHANGED listed /\ UNCHANGED pollVars
            ELSE /\ pc' = "Polling"
                 /\ runJob' = created.jobSid
                 /\ CallPoller(created.jobSid, RangeDays(args))
                 /\ UNCHANGED <<args, listed, lookup, raised, result>>
    /\ UNCHANGED <<dlVars, procVars, callVars>>

\* part_001 231, 266, 278-283: the poller has returned or thrown; its frame
\* is gone, the job it returned is handed to the downloader
PollerSettled ==
    /\ pc = "Polling"
    /\ pollPc \in {"Complete", "TimedOut"}
    /\ IF pollPc = "TimedOut"
       THEN Fails("poller") /\ UNCHANGED listed /\ UNCHANGED <<pollVars, dlVars>>
       ELSE /\ pc' = "Downloading"
            /\ runJob' = pollResult.jobSid
            /\ CallDownloader(pollResult.jobSid, Window(args.start, args.end))
            /\ elapsed' = 0
            /\ fetched' = [ok |-> FALSE, job |-> NoJob]
            /\ pollResult' = NoJob
            /\ remote' = NoScript
            /\ ticks' = 0
            /\ UNCHANGED <<pollPc, jobSid, expectedDays, maxWaitMinutes,
                           pollIntervalMs, initialWaitMs>>
            /\ UNCHANGED <<args, listed, lookup, raised, result>>
    /\ UNCHANGED <<procVars, callVars>>

\* the days of S in ascending order
RECURSIVE Ascending(_)
Ascending(S) ==
    IF S = {} THEN <<>>
    ELSE LET least == CHOOSE d \in S : \A e \in S : d <= e
         IN  <<least>> \o Ascending(S \ {least})

RunLineChoices == {<<"record">>, <<"blank">>}

\* the files folder after the downloader: the files it has opened, listed
\* by name, all with records or all without
RunListings(S) ==
    {[i \in 1..Cardinality(S) |-> File(Ascending(S)[i], TRUE, FALSE, c)] :
        c \in RunLineChoices}

\* a runAutomation that gives up when a day could not be downloaded
DownloaderSettled_AbortsOnFailedDay ==
    /\ pc = "Downloading"
    /\ dlPc \in {"Returned", "Threw"}
    /\ IF dlPc = "Threw" \/ failedCount > 0
       THEN Fails("downloader") /\ UNCHANGED listed /\ UNCHANGED procVars
       ELSE /\ pc' = "Transforming"
            /\ procPc' = "Called"
            /\ procFolder' = dlReturn
            /\ dir' \in RunListings(files)
            /\ UNCHANGED <<allRecords, report, procReturn>>
            /\ UNCHANGED <<args, listed, lookup, runJob, raised, result>>
    /\ UNCHANGED <<pollVars, dlVars, callVars>>

\* part_001 213-214, 279-286: the downloader has returned or thrown
DownloaderSettled ==
    /\ pc = "Downloading"
    /\ dlPc \in {"Returned", "Threw"}
    /\ IF dlPc = "Threw"
       THEN Fails("downloader") /\ UNCHANGED listed /\ UNCHANGED procVars
       ELSE /\ pc' = "Transforming"
            /\ procPc' = "Called"
            /\ procFolder' = dlReturn
            /\ dir' \in RunListings(files)
            /\ UNCHANGED <<allRecords, report, procReturn>>
            /\ UNCHANGED <<args, listed, lookup, runJob, raised, result>>
    /\ UNCHANGED <<pollVars, dlVars, callVars>>

\* part_001 214, 286-302: processFiles has returned or thrown
TransformSettled ==
    /\ pc = "Transforming"
    /\ procPc \in {"Returned", "Threw"}
    /\ IF procPc = "Threw"
       THEN Fails("transform") /\ UNCHANGED listed
       ELSE /\ pc' = "Done"
            /\ result' = Success(args, procReturn.count)
            /\ UNCHANGED <<args, listed, lookup, runJob, raised>>
    /\ UNCHANGED <<pollVars, dlVars, procVars, callVars>>

Init ==
    /\ pc = "Connecting"
    /\ args \in ArgChoices
    /\ lookup = "none"
    /\ runJob = "none"
    /\ raised = "none"
    /\ result = NoResult
    /\ listed = "none"
    \* no function is called on its own
    /\ given = NoCall
    /\ answer = NoCall
    \* the poller is not called
    /\ pollPc = "Idle"
    /\ jobSid = "none"
    /\ expectedDays = 0
    /\ maxWaitMinutes = 0
    /\ pollIntervalMs = 0
    /\ initialWaitMs = 0
    /\ elapsed = 0
    /\ fetched = [ok |-> FALSE, job |-> NoJob]
    /\ pollResult = NoJob
    /\ remote = NoScript
    /\ ticks = 0
    \* the downloader is not called
    /\ dlPc = "Idle"
    /\ jobIdentifier = ""
    /\ window = NoWindow
    /\ maxRetries = 0
    /\ reconciled = NothingReconciled
    /\ task = <<>>
    /\ results = <<>>
    /\ completedCount = 0
    /\ failedCount = 0
    /\ files = {}
    /\ summary = NoSummary
    /\ dlReturn = "none"
    \* processFiles is not called
    /\ procPc = "Idle"
    /\ procFolder = "undefined"
    /\ dir = <<>>
    /\ allRecords = <<>>
    /\ report = <<>>
    /\ procReturn = NoReturn

Next ==
    \/ ConnectionTested
    \/ LookupAnswered
    \/ JobCreated
    \/ PollerSettled
    \/ DownloaderSettled
    \/ TransformSettled
    \/ PollNext
    \/ DlNext
    \/ ProcNext

Spec == Init /\ [][Next]_vars

-----------------------------------------------------------------------------
(* The report of processFiles, fileProcessor.js 73-186: texts are sequences
   of characters, a JSON value is its type and its text *)

Quote == "\""

Delimiter == ";"

\* the field names of the modelled records
KeyTo == <<"t", "o">>

KeyFrom == <<"f", "r", "o", "m">>

KeyPrice == <<"p", "r", "i", "c", "e">>

KeyNote == <<"n", "o", "t", "e">>

KeyFileDate == <<"f", "i", "l", "e", "D", "a", "t", "e">>

\* JSON values: a string, a number or boolean (with the text String() gives
\* it), null, an object of one member; undefined is what a record answers
\* for a key it lacks
Str(s) == [t |-> "string", s |-> s]

Num(s) == [t |-> "number", s |-> s]

Null == [t |-> "null", s |-> <<>>]

Undefined == [t |-> "undefined", s |-> <<>>]

Obj(k, v) == [t |-> "object", s |-> <<>>, key |-> k, member |-> v]

\* fileProcessor.js 52-53: the text of the day a file name carries, or null
DayDigit == <<"1", "2", "3", "4", "5", "6", "7", "8", "9">>

DayText(d) == <<"2", "0", "2", "5", "-", "0", "4", "-", "0", DayDigit[d]>>

FileDateValue(d) == IF d = NoDate THEN Null ELSE Str(DayText(d))

HasKey(fields, k) == \E i \in 1..Len(fields) : fields[i][1] = k

\* fileProcessor.js 79-81: record.fileDate = fileDate; a key the line already
\* holds keeps its place and takes the new value, a new key comes last
Tagged(fields, d) ==
    [fileDate |-> d,
     fields |-> IF HasKey(fields, KeyFileDate)
                THEN [i \in 1..Len(fields) |->
                        IF fields[i][1] = KeyFileDate
                        THEN <<KeyFileDate, FileDateValue(d)>> ELSE fields[i]]
                ELSE Append(fields, <<KeyFileDate, FileDateValue(d)>>)]

\* record[col]
Get(record, col) ==
    IF HasKey(record.fields, col)
    THEN record.fields[CHOOSE i \in 1..Len(record.fields) : record.fields[i][1] = col][2]
    ELSE Undefined

\* fileProcessor.js 132-136: allKeys.add(key) for the keys of one record
RECURSIVE AddKeys(_, _, _)
AddKeys(acc, fields, i) ==
    IF i > Len(fields) THEN acc
    ELSE IF \E j \in 1..Len(acc) : acc[j] = fields[i][1]
         THEN AddKeys(acc, fields, i + 1)
         ELSE AddKeys(Append(acc, fields[i][1]), fields, i + 1)

\* fileProcessor.js 131-136: Array.from(allKeys) over the records from i on
RECURSIVE Columns(_, _, _)
Columns(records, i, acc) ==
    IF i > Len(records) THEN acc
    ELSE Columns(records, i + 1, AddKeys(acc, records[i].fields, 1))

\* JSON.stringify of an object of one member with a number value
Stringify(v) == <<"{", Quote>> \o v.key \o <<Quote, ":">> \o v.member \o <<"}">>

\* fileProcessor.js 152: cell.replace(/\r?\n|\r/g, ' ')
RECURSIVE ReplaceLineBreaks(_, _)
ReplaceLineBreaks(s, i) ==
    IF i > Len(s) THEN <<>>
    ELSE IF s[i] = "\r" /\ i < Len(s) /\ s[i + 1] = "\n"
         THEN <<" ">> \o ReplaceLineBreaks(s, i + 2)
    ELSE IF s[i] = "\r" \/ s[i] = "\n" THEN <<" ">> \o ReplaceLineBreaks(s, i + 1)
    ELSE <<s[i]>> \o ReplaceLineBreaks(s, i + 1)

\* fileProcessor.js 154: cell.replace(/"/g, '""')
RECURSIVE EscapeQuotes(_, _)
EscapeQuotes(s, i) ==
    IF i > Len(s) THEN <<>>
    ELSE (IF s[i] = Quote THEN <<Quote, Quote>> ELSE <<s[i]>>) \o EscapeQuotes(s, i + 1)

\* cell.includes(c)
Includes(s, c) == \E i \in 1..Len(s) : s[i] = c

\* fileProcessor.js 167: cell.replace('.', ','), the first occurrence only
RECURSIVE ReplaceFirstPoint(_, _)
ReplaceFirstPoint(s, i) ==
    IF i > Len(s) THEN <<>>
    ELSE IF s[i] = "." THEN <<",">> \o SubSeq(s, i + 1, Len(s))
    ELSE <<s[i]>> \o ReplaceFirstPoint(s, i + 1)

\* fileProcessor.js 157-163
Wrap(col, s) ==
    IF col = KeyTo \/ col = KeyFrom THEN <<"=", Quote>> \o s \o <<Quote>>
    ELSE IF Includes(s, Delimiter) \/ Includes(s, Quote) THEN <<Quote>> \o s \o <<Quote>>
    ELSE s

\* fileProcessor.js 145-170: the text of the cell of one column
Cell(col, value) ==
    LET present == IF value.t \in {"undefined", "null"} THEN Str(<<>>) ELSE value
        cell == IF present.t = "object" THEN Str(Stringify(present)) ELSE present
    IN  IF cell.t = "string"
        THEN LET escaped == EscapeQuotes(ReplaceLineBreaks(cell.s, 1), 1)
                 wrapped == Wrap(col, escaped)
             IN  IF col = KeyPrice THEN ReplaceFirstPoint(wrapped, 1) ELSE wrapped
        ELSE cell.s

\* Array.prototype.join(';')
RECURSIVE Join(_, _)
Join(texts, i) ==
    IF i > Len(texts) THEN <<>>
    ELSE IF i = Len(texts) THEN texts[i]
    ELSE texts[i] \o <<Delimiter>> \o Join(texts, i + 1)

\* fileProcessor.js 144-170: the cells of one record, one for each column
Cells(record, columns) ==
    [c \in 1..Len(columns) |-> Cell(columns[c], Get(record, columns[c]))]

\* fileProcessor.js 144-171
Row(record, columns) == Join(Cells(record, columns), 1)

\* the columns taken from the records as they were before the sort
GenerateCsv_PreSortColumns(records) ==
    LET sorted == SortRecords(records)
        columns == Columns(records, 1, <<>>)
    IN  [sorted |-> sorted,
         columns |-> columns,
         cells |-> [r \in 1..Len(sorted) |-> Cells(sorted[r], columns)],
         lines |-> <<Join(columns, 1)>>
                   \o [r \in 1..Len(sorted) |-> Row(sorted[r], columns)]]

\* fileProcessor.js 122-184: the sorted records, the columns and the lines
\* of export.csv, the header first
GenerateCsv(records) ==
    LET sorted == SortRecords(records)
        columns == Columns(sorted, 1, <<>>)
    IN  [sorted |-> sorted,
         columns |-> columns,
         cells |-> [r \in 1..Len(sorted) |-> Cells(sorted[r], columns)],
         lines |-> <<Join(columns, 1)>>
                   \o [r \in 1..Len(sorted) |-> Row(sorted[r], columns)]]


\* at most this many records in one call of the report generation
MaxRecords == 2

\* the lines of the files: the members of one JSON object, in the order of
\* the line
CsvFields ==
    {<<<<KeyTo, Str(<<"+", "1">>)>>>>,
     <<<<KeyTo, Str(<<"a", ";", "b">>)>>>>,
     <<<<KeyNote, Str(<<"a", ";", "b">>)>>, <<KeyTo, Str(<<"+", "1">>)>>>>,
     <<<<KeyNote, Str(<<"a", Quote, "b">>)>>>>,
     <<<<KeyTo, Num(<<"1", "5">>)>>>>,
     <<<<KeyNote, Null>>, <<KeyFrom, Str(<<"a", Quote, "b">>)>>>>,
     <<<<KeyPrice, Str(<<"1", ".", "5">>)>>, <<KeyNote, Str(<<"a", "\r", "\n", "b">>)>>>>,
     <<<<KeyPrice, Num(<<"1", ".", "5">>)>>>>,
     <<<<KeyNote, Obj(<<"k">>, <<"1">>)>>>>,
     <<<<KeyFrom, Null>>>>,
     <<<<KeyNote, Str(<<"a">>)>>>>,
     <<<<KeyFileDate, Str(<<"x">>)>>, <<KeyNote, Str(<<"a">>)>>>>}

\* the days of the files the records come from
CsvDays == {NoDate, 1, MaxDay}

\* a parsed line and the day of its file
CsvRecords == {[fileDate |-> d, fields |-> f] : f \in CsvFields, d \in CsvDays}

\* fileProcessor.js 77-80 for every parsed line
TagAll(records) == [i \in 1..Len(records) |-> Tagged(records[i].fields, records[i].fileDate)]

CsvCalls ==
    {[fn |-> "generateCsv", records |-> rs] :
        rs \in {x \in SeqsUpTo(CsvRecords, MaxRecords) : Len(x) >= 1}}

-----------------------------------------------------------------------------
(* Functions called on their own *)

\* the buckets a listed job may hold for the reconciler
BucketStatuses == {"Completed", "CompletedEmptyRecords", "Failed", "Pending", "InProgress"}

RecBuckets ==
    {DayBucket(st, ds) : st \in BucketStatuses, ds \in {<<1>>, <<MaxDay, 1>>}}
    \cup {DayBucketNoDays("Completed"), DayBucket("Completed", <<NotAString, MaxDay>>)}

RecJobs ==
    {DlJob(PolledSid, {}, d) : d \in SeqsUpTo(RecBuckets, 3)}
    \cup {[jobSid |-> PolledSid, hasName |-> FALSE, nameMentions |-> {},
           hasDetails |-> FALSE, details |-> <<>>]}

RecWindows == WindowChoices \cup {Window(1, MaxDay + 1)}

ReconcileCalls ==
    {[fn |-> "reconcile", job |-> j, window |-> w] : j \in RecJobs, w \in RecWindows}

LookupJobs(a, b) ==
    {RangeJob(sid, a, e, TRUE, d) :
        sid \in {PolledSid, OtherSid}, e \in {b, b + 1},
        d \in {DetailsZero, DetailsThree, DetailsFive, DetailsNoCount,
               <<Bucket("Completed", 5), BucketNoCount("CompletedEmptyRecords")>>}}
    \cup {RangeJob(PolledSid, a, b, FALSE, <<>>)}

FindCalls ==
    {[fn |-> "findExistingJob", resp |-> r, hasResource |-> h, start |-> a,
      end |-> MaxDay, expected |-> n] :
        r \in {ListError} \cup {Listing(js) : js \in SeqsUpTo(LookupJobs(1, MaxDay), 2)},
        h \in BOOLEAN, a \in {0, 1}, n \in {1, 3, 5}}

CreateCalls ==
    {[fn |-> "createExportJob", params |-> CreateArgs(r, a, b, f), outcome |-> o] :
        r \in BOOLEAN, a \in BOOLEAN, b \in BOOLEAN, f \in BOOLEAN, o \in CreateOutcomes}

\* export.js 445-495 applied to one listing and one request
CallFindExistingJob ==
    /\ given.fn = "findExistingJob"
    /\ answer = NoCall
    /\ answer' = [fn |-> "findExistingJob",
                  value |-> FindExistingJob(given.resp, given.hasResource, given.start,
                                            given.end, given.expected)]
    /\ UNCHANGED given

\* export.js 281-312 applied to one set of arguments and one remote outcome
CallCreateExportJob ==
    /\ given.fn = "createExportJob"
    /\ answer = NoCall
    /\ answer' = [fn |-> "createExportJob",
                  value |-> CreateExportJob(given.params, given.outcome)]
    /\ UNCHANGED given

\* download.js 249-288 applied to one job and one window
CallReconcile ==
    /\ given.fn = "reconcile"
    /\ answer = NoCall
    /\ answer' = [fn |-> "reconcile", value |-> Reconcile(given.job, given.window)]
    /\ UNCHANGED given

\* n lines of one kind
Repeat(kind, n) == [i \in 1..n |-> kind]

\* the lines of one file: every short file, and files with up to one
\* malformed line more than the cap, between and before well-formed lines
ParseLineChoices ==
    SeqsUpTo({"record", "blank", "malformed"}, 3)
    \cup {<<"record">> \o Repeat("malformed", n) \o tail :
            n \in (ParseErrorCap - 2)..(ParseErrorCap + 1),
            tail \in {<<>>, <<"record">>, <<"record", "blank", "malformed", "record">>}}
    \cup {Repeat("record", n) : n \in 4..5}

ParseCalls ==
    {[fn |-> "parseFile", file |-> File(t, TRUE, b, ls)] :
        t \in {NoDate, 1}, b \in BOOLEAN, ls \in ParseLineChoices}

\* fileProcessor.js 49-111 applied to one file of the files folder
CallParseFile ==
    /\ given.fn = "parseFile"
    /\ answer = NoCall
    /\ answer' = [fn |-> "parseFile", value |-> FileRecords(given.file, 1)]
    /\ UNCHANGED given

\* fileProcessor.js 77-80 and 122-184 applied to the parsed lines of the files
CallGenerateCsv ==
    /\ given.fn = "generateCsv"
    /\ answer = NoCall
    /\ answer' = [fn |-> "generateCsv", value |-> GenerateCsv(TagAll(given.records))]
    /\ UNCHANGED given

\* jobs the downloader may be given to search: with or without a friendly
\* name, and with a friendly name that contains the SID of another job
NamedJobs ==
    {DlJob(PolledSid, {}, <<>>), DlJob(OtherSid, {}, <<>>),
     DlJob(OtherSid, {PolledSid}, <<>>),
     [jobSid |-> PolledSid, hasName |-> FALSE, nameMentions |-> {},
      hasDetails |-> TRUE, details |-> <<>>]}

FindMyJobCalls ==
    {[fn |-> "findMyJob", jobs |-> js, ident |-> PolledSid] : js \in SeqsUpTo(NamedJobs, 2)}

\* download.js 224-227: jobs.find for the identifier
CallFindMyJob ==
    /\ given.fn = "findMyJob"
    /\ answer = NoCall
    /\ answer' = [fn |-> "findMyJob", value |-> FindMyJob(given.jobs, given.ident, 1)]
    /\ UNCHANGED given

CallInit ==
    /\ given \in ReconcileCalls \cup FindCalls \cup CreateCalls \cup CsvCalls
                \cup ParseCalls \cup FindMyJobCalls
    /\ answer = NoCall
    /\ pollPc = "Idle"
    /\ jobSid = "none"
    /\ expectedDays = 0
    /\ maxWaitMinutes = 0
    /\ pollIntervalMs = 0
    /\ initialWaitMs = 0
    /\ elapsed = 0
    /\ fetched = [ok |-> FALSE, job |-> NoJob]
    /\ pollResult = NoJob
    /\ remote = NoScript
    /\ ticks = 0
    /\ dlPc = "Idle"
    /\ jobIdentifier = ""
    /\ window = NoWindow
    /\ maxRetries = 0
    /\ reconciled = NothingReconciled
    /\ task = <<>>
    /\ results = <<>>
    /\ completedCount = 0
    /\ failedCount = 0
    /\ files = {}
    /\ summary = NoSummary
    /\ dlReturn = "none"
    \* processFiles is not called
    /\ procPc = "Idle"
    /\ procFolder = "undefined"
    /\ dir = <<>>
    /\ allRecords = <<>>
    /\ report = <<>>
    /\ procReturn = NoReturn
    \* runAutomation is not running
    /\ pc = "Idle"
    /\ args = NoArgs
    /\ lookup = "none"
    /\ runJob = "none"
    /\ raised = "none"
    /\ result = NoResult
    /\ listed = "none"

CallNext ==
    \/ CallReconcile /\ UNCHANGED <<pollVars, dlVars, procVars, runVars>>
    \/ CallFindExistingJob /\ UNCHANGED <<pollVars, dlVars, procVars, runVars>>
    \/ CallCreateExportJob /\ UNCHANGED <<pollVars, dlVars, procVars, runVars>>
    \/ CallGenerateCsv /\ UNCHANGED <<pollVars, dlVars, procVars, runVars>>
    \/ CallParseFile /\ UNCHANGED <<pollVars, dlVars, procVars, runVars>>
    \/ CallFindMyJob /\ UNCHANGED <<pollVars, dlVars, procVars, runVars>>

SpecCalls == CallInit /\ [][CallNext]_vars

-----------------------------------------------------------------------------
(* The poller on its own *)

ExpectedDaysChoices == {3, 5}
PollIntervalChoices == {0, 45000, 60000}
InitialWaitChoices == {0, 60000}

PollInit ==
    /\ pollPc = "Initial"
    /\ jobSid = PolledSid
    /\ expectedDays \in ExpectedDaysChoices
    /\ maxWaitMinutes \in 0..MaxWaitMinutes
    /\ pollIntervalMs \in PollIntervalChoices
    /\ initialWaitMs \in InitialWaitChoices
    /\ elapsed = 0
    /\ fetched = [ok |-> FALSE, job |-> NoJob]
    /\ pollResult = NoJob
    /\ remote \in Scripts(MaxScript)
    /\ ticks = 0
    \* processFiles is not called
    /\ procPc = "Idle"
    /\ procFolder = "undefined"
    /\ dir = <<>>
    /\ allRecords = <<>>
    /\ report = <<>>
    /\ procReturn = NoReturn
    \* the downloader is not called
    /\ dlPc = "Idle"
    /\ jobIdentifier = ""
    /\ window = NoWindow
    /\ maxRetries = 0
    /\ reconciled = NothingReconciled
    /\ task = <<>>
    /\ results = <<>>
    /\ completedCount = 0
    /\ failedCount = 0
    /\ files = {}
    /\ summary = NoSummary
    /\ dlReturn = "none"
    \* runAutomation is not running
    /\ pc = "Idle"
    /\ args = NoArgs
    /\ lookup = "none"
    /\ runJob = "none"
    /\ raised = "none"
    /\ result = NoResult
    /\ listed = "none"
    \* no function is called on its own
    /\ given = NoCall
    /\ answer = NoCall

SpecPoll == PollInit /\ [][PollNext]_vars

-----------------------------------------------------------------------------
(* Properties of the completion poller *)

FetchedDetails == fetched.ok /\ fetched.job.hasDetails

\* the service reports 0, then 2, then 5 completed days
Script025 ==
    [first |-> <<Listing(<<PollJob(PolledSid, DetailsZero)>>),
                 Listing(<<PollJob(PolledSid, DetailsTwo)>>)>>,
     rest |-> Listing(<<PollJob(PolledSid, DetailsFive)>>)]

\* C1: the poller returns the job it fetched at the first tick whose
\* completedDays reaches expectedDays: it never goes to sleep after such a
\* tick, the job returned is the job of that tick, nothing is fetched
\* after it, and with the answers 0, 2, 5 and expectedDays = 5 it returns at
\* the third tick.
C1_ReturnsAtFirstReadyTick ==
    /\ [](pollPc = "Sleeping" /\ FetchedDetails
            => CompletedDays(fetched.job.details) < expectedDays)
    /\ [](pollPc = "Complete" => FetchedDetails /\ pollResult = fetched.job)
    /\ [][pollPc = "Complete" => UNCHANGED <<pollVars, procVars, runVars>>]_vars
    /\ [](remote = Script025 /\ expectedDays = 5
            => /\ pollPc = "Complete" => ticks = 3
               /\ pollPc = "TimedOut" => ticks < 3)

C1_Witness ==
    /\ remote = Script025
    /\ expectedDays = 5
    /\ pollPc = "Complete"
    /\ ticks = 3
    /\ CompletedDays(pollResult.details) = 5

C3_PartialSuccessReturns ==
    /\ (pollPc = "Sleeping" /\ FetchedDetails
          => ~(/\ FailedDays(fetched.job.details) > 0
               /\ CompletedDays(fetched.job.details)
                    + FailedDays(fetched.job.details) >= expectedDays))
    /\ (pollPc = "Complete"
          => /\ FetchedDetails
             /\ pollResult = fetched.job
             /\ \/ CompletedDays(pollResult.details) >= expectedDays
                \/ /\ FailedDays(pollResult.details) > 0
                   /\ CompletedDays(pollResult.details)
                        + FailedDays(pollResult.details) >= expectedDays)

C3_Witness ==
    /\ pollPc = "Complete"
    /\ CompletedDays(pollResult.details) < expectedDays
    /\ FailedDays(pollResult.details) > 0

\* C4: a status check whose getJob throws (remote failure, job missing from
\* the listing) leaves the poller waiting: it goes to sleep, sleeps the
\* poll interval and comes back to the loop head; the poller fails in no
\* other way than the timeout.
C4_TickErrorsDoNotEndThePoll ==
    /\ [][/\ pollPc = "Waiting"
           /\ elapsed < MaxWaitMs(maxWaitMinutes)
           /\ ~GetJob(CurrentResponse, jobSid).ok
           => pollPc' = "Sleeping" /\ ~fetched'.ok]_vars
    /\ [][pollPc = "Sleeping"
           => pollPc' = "Waiting" /\ elapsed' = elapsed + pollIntervalMs]_vars
    /\ [](pollPc \in {"Idle", "Initial", "Waiting", "Sleeping", "Complete",
                       "TimedOut"})

\* a failed check (the job missing from the listing) followed by a check
\* that returns the job
C4_Witness ==
    /\ pollPc = "Complete"
    /\ ticks = 2
    /\ Len(remote.first) >= 1
    /\ ~GetJob(remote.first[1], jobSid).ok
    /\ remote.first[1].ok

-----------------------------------------------------------------------------
(* Properties of the day downloader *)

TaskIds == 1..Len(task)

\* C5: a day whose every attempt failed is recorded as a failed day (null
\* result, failedCount, failedDays of the summary), and whatever the
\* interleaving it leaves the sibling tasks running: a task with work left
\* is always inside a running fan-out with its next step possible, and a
\* day that succeeded has its success recorded.
C5_FailedDayLeavesSiblingsRunning ==
    /\ \A i \in TaskIds :
        /\ task[i].pc = "Failed"
            => results[i] = "null" /\ task[i].failures = maxRetries + 1
        /\ task[i].pc = "Succeeded" => results[i] = "ok"
        /\ task[i].pc = "Attempting" => dlPc = "FanOut" /\ ENABLED AttemptSettles(i)
        /\ task[i].pc = "Backoff" => dlPc = "FanOut" /\ ENABLED BackoffEnds(i)
    /\ completedCount = Cardinality({i \in TaskIds : task[i].pc = "Succeeded"})
    /\ failedCount = Cardinality({i \in TaskIds : task[i].pc = "Failed"})
    /\ summary.made =>
        /\ summary.successCount
             = Cardinality({i \in TaskIds : task[i].pc = "Succeeded"})
        /\ {summary.failedDays[k] : k \in 1..Len(summary.failedDays)}
             = {reconciled.daysToDownload[i] : i \in {j \in TaskIds : task[j].pc = "Failed"}}

\* one day failed for good, a sibling succeeded at a retry
C5_Witness ==
    /\ dlPc = "Returned"
    /\ \E i, j \in TaskIds :
        /\ task[i].pc = "Failed"
        /\ task[j].pc = "Succeeded"
        /\ task[j].attempts > 1
        /\ results[i] = "null"
        /\ results[j] = "ok"

\* C6: downloadWithRetry makes at most maxRetries + 1 attempts, none after
\* the first successful one, and throws only after exactly maxRetries + 1
\* failed attempts, the error thrown being the error of the last attempt.
C6_AttemptBudget ==
    /\ [](\A i \in TaskIds :
            /\ task[i].attempts <= maxRetries + 1
            /\ task[i].pc = "Succeeded" => task[i].failures = task[i].attempts - 1
            /\ task[i].pc = "Failed"
                => /\ task[i].failures = maxRetries + 1
                   /\ task[i].attempts = maxRetries + 1
                   /\ task[i].thrown = task[i].lastError
                   /\ task[i].thrown.attempt = maxRetries + 1
                   /\ task[i].thrown.kind \in AttemptOutcomes \ {"finish"}
            /\ task[i].pc \in {"Attempting", "Backoff", "Succeeded"}
                => task[i].thrown = NoError)
    /\ [][\A i \in TaskIds : Terminal(task[i]) => task'[i] = task[i]]_vars

C6_Witness ==
    \E i \in TaskIds :
        /\ task[i].pc = "Failed"
        /\ maxRetries >= 1
        /\ task[i].attempts = maxRetries + 1

\* C7: the summary is made and the job folder returned only when every day
\* of daysToDownload has a terminal result, a failed day having used all
\* its attempts; once the tasks are dispatched the downloader never throws
\* and never returns while a task is unfinished.
C7_AllTasksRunToCompletion ==
    /\ (summary.made \/ dlReturn = "jobFolder")
        => /\ Len(task) = Len(reconciled.daysToDownload)
           /\ Len(results) = Len(reconciled.daysToDownload)
           /\ \A i \in TaskIds :
                /\ Terminal(task[i])
                /\ results[i] \in {"ok", "null"}
                /\ task[i].pc = "Failed" => task[i].attempts = maxRetries + 1
    /\ dlPc \in {"Threw", "Returned"} => \A i \in TaskIds : Terminal(task[i])
    /\ dlPc = "Threw" => task = <<>>

C7_Witness ==
    /\ dlPc = "Returned"
    /\ dlReturn = "jobFolder"
    /\ Len(summary.failedDays) >= 1
    /\ summary.successCount >= 1


-----------------------------------------------------------------------------
(* Properties of the transform *)

PositionIn(seq, r) == CHOOSE i \in 1..Len(seq) : seq[i] = r

AllDated(listing) == \A i \in 1..Len(listing) : listing[i].gz => listing[i].tag # NoDate

\* C8: in the report processFiles writes, a record of a file dated d1 comes
\* before every record of a file dated d2 whenever d1 < d2, and records of
\* one date keep the order they had before the sort, whatever .json.gz files
\* the files folder holds.
C8_ReportOrderedByFileDate ==
    (procPc = "Returned" /\ procReturn.kind = "written") =>
        \A p, q \in 1..Len(report) :
            p < q =>
                /\ (report[p].fileDate # NoDate /\ report[q].fileDate # NoDate)
                     => report[p].fileDate <= report[q].fileDate
                /\ report[p].fileDate = report[q].fileDate
                     => PositionIn(allRecords, report[p]) < PositionIn(allRecords, report[q])

\* the same order, for a folder in which every .json.gz name carries a day
C8_DatedFilesOrdered ==
    AllDated(dir) => C8_ReportOrderedByFileDate


-----------------------------------------------------------------------------
(* Properties of runAutomation *)

DateRangeRun == pc # "Idle" /\ args.mode # "job"

PollerRunning == pollPc \in {"Initial", "Waiting", "Sleeping"}

\* C9: in a date-range run the stages come in the order resolver, poller,
\* reconciler, downloader, transform: the poller is called only after the
\* resolver has answered; the downloader is entered, and so a day download
\* started, only after the resolver found the job complete or the poller
\* returned it; day tasks exist only once the reconciler has fixed the days;
\* processFiles is called only after the downloader has returned with every
\* day task terminal.
C9_StagesInOrder ==
    DateRangeRun =>
        /\ pollPc # "Idle" => (lookup \in {"needsWaiting", "notFound"} /\ runJob # "none")
        /\ PollerRunning => (dlPc = "Idle" /\ procPc = "Idle")
        /\ dlPc # "Idle" => (lookup = "complete" \/ pollPc = "Complete")
        /\ task # <<>> => /\ dlPc \in {"FanOut", "Returned"}
                          /\ Len(task) = Len(reconciled.daysToDownload)
        /\ dlPc \in {"Called", "FanOut"} => procPc = "Idle"
        /\ procPc # "Idle" => /\ dlPc = "Returned"
                              /\ \A i \in TaskIds : Terminal(task[i])

C9_Witness ==
    /\ DateRangeRun
    /\ pc = "Done"
    /\ lookup = "notFound"
    /\ pollPc = "Complete"
    /\ Len(task) >= 2
    /\ \E i \in TaskIds : task[i].pc = "Failed"
    /\ procPc = "Returned"
    /\ result.success

Stages == {"connection", "arguments", "lookup", "creation", "poller", "downloader",
           "transform"}

\* C10: a stage of runAutomation that raises (testConnection, the argument
\* validation, findExistingJob, createExportJob, the poller timing out, the
\* downloader, processFiles) is followed by no later stage, and the promise
\* resolves with {success: false, error} of that stage; the promise is never
\* rejected, success is never reported after a raise, and nothing runs once
\* the failure is returned.
C10_RaiseShortCircuits ==
    /\ [](/\ result.settled # "rejected"
          /\ result.success => (raised = "none" /\ procPc = "Returned")
          /\ raised # "none" => /\ raised \in Stages
                                /\ pc = "Done"
                                /\ result = [settled |-> "resolved", success |-> FALSE,
                                             error |-> raised, recordCount |-> 0]
          /\ raised \in {"connection", "arguments", "lookup", "creation"}
                => (runJob = "none" /\ pollPc = "Idle" /\ dlPc = "Idle" /\ procPc = "Idle")
          /\ raised \in {"connection", "arguments"} => lookup = "none"
          /\ (pollPc = "TimedOut" \/ raised = "poller")
                => (dlPc = "Idle" /\ procPc = "Idle")
          /\ (dlPc = "Threw" \/ raised = "downloader") => procPc = "Idle"
          /\ (pc = "Done" /\ (pollPc = "TimedOut" \/ dlPc = "Threw" \/ procPc = "Threw"))
                => raised # "none")
    /\ [][raised # "none" => UNCHANGED vars]_vars

C10_Witness ==
    /\ pc = "Done"
    /\ lookup = "notFound"
    /\ runJob = PolledSid
    /\ pollPc = "TimedOut"
    /\ raised = "poller"
    /\ result.settled = "resolved"
    /\ ~result.success
    /\ result.error = "poller"


-----------------------------------------------------------------------------
(* Properties of the reconciler *)

Range(seq) == {seq[i] : i \in 1..Len(seq)}

NoDuplicates(seq) == \A i, j \in 1..Len(seq) : seq[i] = seq[j] => i = j

\* the days a job lists in buckets of the given statuses
ListedDays(j, statuses) ==
    IF ~j.hasDetails THEN {}
    ELSE {d \in 1..(MaxDay + 1) :
            \E i \in 1..Len(j.details) :
                /\ j.details[i].status \in statuses
                /\ j.details[i].hasDays
                /\ d \in Range(j.details[i].days)}

InWindow(d, w) == w.start <= d /\ d <= w.end

Reconciled == answer.fn = "reconcile"

\* C11: with a user window the reconciler yields as daysToDownload the
\* Completed days inside the window, as emptyDaysInRange the
\* CompletedEmptyRecords days inside the window, and daysOutsideJobScope =
\* totalDaysInRange - |daysToDownload| - |emptyDaysInRange|; no day that is
\* only Failed, Pending, InProgress or CompletedEmptyRecords, and no day
\* outside the window, is in daysToDownload.
C11_WindowedReconciliation ==
    (Reconciled /\ given.window.has) =>
        LET r == answer.value
            w == given.window
            done == ListedDays(given.job, {"Completed"})
            empty == ListedDays(given.job, {"CompletedEmptyRecords"})
            other == ListedDays(given.job, BucketStatuses \ {"Completed"})
        IN  /\ Range(r.daysToDownload) = {d \in done : InWindow(d, w)}
            /\ NoDuplicates(r.daysToDownload)
            /\ Range(r.emptyDaysInRange) = {d \in empty : InWindow(d, w)}
            /\ NoDuplicates(r.emptyDaysInRange)
            /\ r.totalDaysInRange = w.end - w.start + 1
            /\ r.daysOutsideJobScope =
                 r.totalDaysInRange - Len(r.daysToDownload) - Len(r.emptyDaysInRange)
            /\ \A d \in other \ done : d \notin Range(r.daysToDownload)
            /\ \A d \in Range(r.daysToDownload) : InWindow(d, w)

C11_Witness ==
    /\ Reconciled
    /\ given.window = Window(MaxDay, MaxDay)
    /\ 1 \in ListedDays(given.job, {"Completed"})
    /\ MaxDay \in ListedDays(given.job, {"Completed"})
    /\ answer.value.daysToDownload = <<MaxDay>>

\* C12: without a user window daysToDownload holds exactly the days listed
\* in Completed buckets, each day once even when several buckets list it.
C12_EveryCompletedDayOnce ==
    (Reconciled /\ ~given.window.has) =>
        /\ Range(answer.value.daysToDownload) = ListedDays(given.job, {"Completed"})
        /\ NoDuplicates(answer.value.daysToDownload)
        /\ Len(answer.value.daysToDownload)
             = Cardinality(ListedDays(given.job, {"Completed"}))

C12_Witness ==
    /\ Reconciled
    /\ ~given.window.has
    /\ \E i, k \in 1..Len(given.job.details) :
          /\ i # k
          /\ given.job.details[i] = DayBucket("Completed", <<MaxDay, 1>>)
          /\ given.job.details[k] = DayBucket("Completed", <<1>>)
    /\ answer.value.daysToDownload = <<1, MaxDay>>


-----------------------------------------------------------------------------
(* Properties of findExistingJob and createExportJob *)

Found == answer.fn = "findExistingJob"

MatchesRequest(j) == j.startDay = given.start /\ j.endDay = given.end

AllCounted(j) ==
    \A i \in 1..Len(j.details) :
        j.details[i].status \in {"Completed", "CompletedEmptyRecords"}
            => j.details[i].hasCount

\* C14: given its arguments and a listing, findExistingJob returns the first
\* listed job whose startDay and endDay equal the request, never a later one,
\* with needsWaiting true exactly when the counts of its Completed and
\* CompletedEmptyRecords buckets sum to less than expectedDays (a bucket
\* without a count makes the sum not a number, and the job is waited for);
\* it returns null exactly when no listed job has both dates.
C14_FirstJobOfTheRange ==
    (Found /\ given.hasResource /\ given.start # 0 /\ given.resp.ok) =>
        LET jobs == given.resp.jobs
            v == answer.value
            matching == {i \in 1..Len(jobs) : MatchesRequest(jobs[i])}
        IN  /\ v.kind \in {"found", "notFound"}
            /\ v.kind = "notFound" <=> matching = {}
            /\ v.kind = "found" =>
                 /\ v.index \in matching
                 /\ \A i \in matching : v.index <= i
                 /\ v.jobSid = jobs[v.index].jobSid
                 /\ AllCounted(jobs[v.index]) =>
                      (v.needsWaiting <=>
                          CompletedDays(jobs[v.index].details) < given.expected)
                 /\ ~AllCounted(jobs[v.index]) => v.needsWaiting

C14_Witness ==
    /\ Found
    /\ given.hasResource
    /\ given.start = 1
    /\ given.expected = 5
    /\ given.resp.ok
    /\ given.resp.jobs = <<RangeJob(OtherSid, 1, MaxDay, TRUE, DetailsThree),
                           RangeJob(PolledSid, 1, MaxDay, TRUE, DetailsFive)>>
    /\ answer.value.kind = "found"
    /\ answer.value.jobSid = OtherSid
    /\ answer.value.needsWaiting

\* C15: a failed job listing is never turned into the not-found answer: it
\* is thrown, runAutomation ends with the failure of the lookup, and no job
\* is created, polled or downloaded; a job is created only after a listing
\* that succeeded and held no job of the range.
C15_ListingFailureIsNotNotFound ==
    /\ listed = "failed" =>
          /\ raised = "lookup"
          /\ lookup = "none"
          /\ runJob = "none"
          /\ pc = "Done"
          /\ result.settled = "resolved"
          /\ ~result.success
          /\ result.error = "lookup"
          /\ pollPc = "Idle"
          /\ dlPc = "Idle"
    /\ lookup = "notFound" => listed = "listed"
    /\ pc = "Creating" => (listed = "listed" /\ lookup = "notFound")

C15_Witness ==
    /\ listed = "failed"
    /\ pc = "Done"
    /\ raised = "lookup"
    /\ args.mode = "dates"

Created == answer.fn = "createExportJob"

MissingParameter(p) ==
    ~p.resourceType \/ ~p.startDay \/ ~p.endDay \/ ~p.friendlyName

\* C16: createExportJob with resourceType, startDay, endDay or friendlyName
\* missing throws without submitting anything; with all four given and the
\* remote create call failing it throws the wrapped error; in both cases no
\* job is returned, and a job is returned in no other case than all four
\* given and the remote call succeeding.
C16_CreateFailsWithoutJob ==
    Created =>
        LET v == answer.value
        IN  /\ MissingParameter(given.params) =>
                 (v.kind = "error" /\ ~v.submitted /\ v.jobSid = "none")
            /\ (~MissingParameter(given.params) /\ given.outcome = "rejected") =>
                 /\ v.kind = "error"
                 /\ v.wrapper = "Failed to create export job"
                 /\ v.cause = "remote"
                 /\ v.jobSid = "none"
            /\ v.kind = "job" <=>
                 (~MissingParameter(given.params) /\ given.outcome = "created")
            /\ v.kind = "job" => v.jobSid # "none"

C16_Witness ==
    /\ Created
    /\ given.params = CreateArgs(TRUE, TRUE, TRUE, FALSE)
    /\ given.outcome = "created"
    /\ answer.value.kind = "error"
    /\ ~answer.value.submitted


-----------------------------------------------------------------------------
(* Properties of a run with failed downloads *)

SomeDayFailed == \E i \in TaskIds : task[i].pc = "Failed"

-----------------------------------------------------------------------------
(* Properties of the report *)

CsvDone == answer.fn = "generateCsv"

\* the fields a reader of delimited text finds in one line: a field that
\* begins with a quote runs to its closing quote (a doubled quote is a quote
\* of the text), any other field runs to the next delimiter
RECURSIVE ReadFields(_, _, _, _)
ReadFields(line, i, mode, field) ==
    IF i > Len(line) THEN <<field>>
    ELSE IF mode = "quoted"
         THEN IF line[i] = Quote /\ i < Len(line) /\ line[i + 1] = Quote
              THEN ReadFields(line, i + 2, "quoted", field \o <<Quote, Quote>>)
              ELSE IF line[i] = Quote
              THEN ReadFields(line, i + 1, "plain", Append(field, Quote))
              ELSE ReadFields(line, i + 1, "quoted", Append(field, line[i]))
    ELSE IF line[i] = Delimiter THEN <<field>> \o ReadFields(line, i + 1, "start", <<>>)
    ELSE IF mode = "start" /\ line[i] = Quote
         THEN ReadFields(line, i + 1, "quoted", <<Quote>>)
    ELSE ReadFields(line, i + 1, "plain", Append(field, line[i]))

FieldsOf(line) == ReadFields(line, 1, "start", <<>>)

Absent(record, col) == Get(record, col).t \in {"undefined", "null"}

RowLine(r) == answer.value.lines[r + 1]

\* C18: every row line of the report has as many delimiter-separated fields
\* as the header has columns, whatever the records are, and a field that a
\* record lacks or holds as null is emitted as the empty text.
C18_RowsMatchHeader ==
    CsvDone =>
        \A r \in 1..Len(answer.value.sorted) :
            /\ Len(FieldsOf(RowLine(r))) = Len(answer.value.columns)
            /\ \A c \in 1..Len(answer.value.columns) :
                    Absent(answer.value.sorted[r], answer.value.columns[c])
                        => FieldsOf(RowLine(r))[c] = <<>>

PhoneColumn(col) == col = KeyTo \/ col = KeyFrom

\* the same, for records that hold a text without delimiter under "to" and
\* "from", and for the columns other than these two
C18_RowsMatchHeaderOutsidePhoneColumns ==
    (/\ CsvDone
     /\ \A r \in 1..Len(answer.value.sorted) : \A col \in {KeyTo, KeyFrom} :
            ~Includes(Get(answer.value.sorted[r], col).s, Delimiter))
    => \A r \in 1..Len(answer.value.sorted) :
            /\ Len(FieldsOf(RowLine(r))) = Len(answer.value.columns)
            /\ \A c \in 1..Len(answer.value.columns) :
                    (/\ Absent(answer.value.sorted[r], answer.value.columns[c])
                     /\ ~PhoneColumn(answer.value.columns[c]))
                        => FieldsOf(RowLine(r))[c] = <<>>


KeysOf(record) == {record.fields[k][1] : k \in 1..Len(record.fields)}

KeyPosition(record, col) == CHOOSE k \in 1..Len(record.fields) : record.fields[k][1] = col

\* the first record of the sequence that holds the field
FirstRecordWith(records, col) ==
    CHOOSE r \in 1..Len(records) :
        /\ col \in KeysOf(records[r])
        /\ \A q \in 1..(r - 1) : col \notin KeysOf(records[q])

SeenBefore(records, c, d) ==
    LET rc == FirstRecordWith(records, c)
        rd == FirstRecordWith(records, d)
    IN  \/ rc < rd
        \/ rc = rd /\ KeyPosition(records[rc], c) < KeyPosition(records[rd], d)

\* C19: the header columns are the union of the field names of all records,
\* each name once, in the order in which the names are first met when the
\* records are scanned in their sorted order; the header line is these names
\* joined by the delimiter.
C19_ColumnsInFirstSeenOrder ==
    CsvDone =>
        LET columns == answer.value.columns
            sorted == answer.value.sorted
        IN  /\ sorted = SortRecords(TagAll(given.records))
            /\ Range(columns) = UNION {KeysOf(sorted[r]) : r \in 1..Len(sorted)}
            /\ NoDuplicates(columns)
            /\ \A c, d \in 1..Len(columns) :
                    c < d => SeenBefore(sorted, columns[c], columns[d])
            /\ answer.value.lines[1] = Join(columns, 1)

\* a report whose records the sort has reordered, with columns that are
\* neither in alphabetical order nor in the order of the unsorted records
C19_Witness ==
    /\ CsvDone
    /\ Len(given.records) = 2
    /\ given.records[1].fileDate > given.records[2].fileDate
    /\ given.records[2].fileDate # NoDate
    /\ KeysOf(given.records[1]) = {KeyNote, KeyTo}
    /\ given.records[1].fields[1][1] = KeyNote
    /\ answer.value.columns = <<KeyTo, KeyFileDate, KeyNote>>


\* the text of a value before it is wrapped: nothing for an absent value,
\* the JSON text of an object, line breaks turned into spaces
ValueText(value) ==
    IF value.t \in {"undefined", "null"} THEN <<>>
    ELSE IF value.t = "object" THEN Stringify(value)
    ELSE ReplaceLineBreaks(value.s, 1)

\* a value the code handles as text: a string, an object, or absent
Textual(value) == value.t \in {"string", "object", "undefined", "null"}

\* the decimal comma of the price column, which only a text receives
Priced(col, value, text) ==
    IF col = KeyPrice /\ Textual(value) THEN ReplaceFirstPoint(text, 1) ELSE text

\* the cell the wrapping rule asks for
WrappedAsRuled(col, value) ==
    LET text == ValueText(value)
    IN  IF PhoneColumn(col) THEN <<"=", Quote>> \o EscapeQuotes(text, 1) \o <<Quote>>
        ELSE IF Includes(text, Delimiter) \/ Includes(text, Quote)
        THEN Priced(col, value, <<Quote>> \o EscapeQuotes(text, 1) \o <<Quote>>)
        ELSE Priced(col, value, text)

\* C20: a cell of column "to" or "from" is emitted as ="value" with the
\* quotes of the value doubled and without further quoting; a cell of any
\* other column whose value holds the delimiter or a quote is emitted in
\* plain double quotes with the inner quotes doubled; every other cell is
\* emitted unwrapped.
C20_CellsWrappedAsRuled ==
    CsvDone =>
        \A r \in 1..Len(answer.value.sorted) : \A c \in 1..Len(answer.value.columns) :
            answer.value.cells[r][c]
                = WrappedAsRuled(answer.value.columns[c],
                                 Get(answer.value.sorted[r], answer.value.columns[c]))

\* the same rule, for every cell but a number under "to" or "from"
C20_CellsWrappedUnlessNumberInPhoneColumn ==
    CsvDone =>
        \A r \in 1..Len(answer.value.sorted) : \A c \in 1..Len(answer.value.columns) :
            (\/ Textual(Get(answer.value.sorted[r], answer.value.columns[c]))
             \/ ~PhoneColumn(answer.value.columns[c]))
                => answer.value.cells[r][c]
                    = WrappedAsRuled(answer.value.columns[c],
                                     Get(answer.value.sorted[r], answer.value.columns[c]))


\* the cell of the record at place r of the report under the column col,
\* and the value the record holds there
CellUnder(r, col) ==
    answer.value.cells[r][CHOOSE c \in 1..Len(answer.value.columns) :
                              answer.value.columns[c] = col]

ValueUnder(r, col) == Get(answer.value.sorted[r], col)

HasPrice(r) == ~Absent(answer.value.sorted[r], KeyPrice)

\* C21: for every record that has a price value, the cell of column "price"
\* holds a decimal comma in the place of the decimal point, whatever the JSON
\* type of the value.
C21_PriceHasDecimalComma ==
    CsvDone =>
        \A r \in 1..Len(answer.value.sorted) :
            HasPrice(r) =>
                CellUnder(r, KeyPrice)
                    = ReplaceFirstPoint(ValueText(ValueUnder(r, KeyPrice)), 1)

\* the same, for the prices delivered as JSON strings
C21_StringPriceHasDecimalComma ==
    CsvDone =>
        \A r \in 1..Len(answer.value.sorted) :
            (HasPrice(r) /\ ValueUnder(r, KeyPrice).t = "string") =>
                /\ CellUnder(r, KeyPrice)
                     = ReplaceFirstPoint(ValueText(ValueUnder(r, KeyPrice)), 1)
                /\ ~Includes(CellUnder(r, KeyPrice), ".")


-----------------------------------------------------------------------------
(* Properties of the reading of one file *)

ParseDone == answer.fn = "parseFile"

\* the malformed lines before line k
MalformedBefore(lines, k) == Cardinality({j \in 1..(k - 1) : lines[j] = "malformed"})

\* the well-formed lines that precede the line at which the cap is reached
ReadableLines(lines) ==
    {k \in 1..Len(lines) : lines[k] = "record" /\ MalformedBefore(lines, k) < ParseErrorCap}

\* C22: the records of a file that is read to its end or to the cap are
\* exactly its well-formed non-blank lines that precede its 10th malformed
\* line, in file order, each once: a malformed line before the cap loses no
\* later line, nothing is read past the 10th malformed line, and a file of N
\* well-formed lines yields N records.
C22_RecordsAreLinesBeforeTheCap ==
    (ParseDone /\ ~given.file.broken) =>
        LET records == answer.value
            lines == given.file.lines
        IN  /\ {records[i].line : i \in 1..Len(records)} = ReadableLines(lines)
            /\ \A i, j \in 1..Len(records) : i < j => records[i].line < records[j].line
            /\ (\A k \in 1..Len(lines) : lines[k] = "record") => Len(records) = Len(lines)

\* a file with a well-formed line kept after nine malformed lines and a
\* well-formed line lost after the tenth
C22_Witness ==
    /\ ParseDone
    /\ ~given.file.broken
    /\ \E k \in 1..Len(given.file.lines) :
            /\ given.file.lines[k] = "record"
            /\ MalformedBefore(given.file.lines, k) = ParseErrorCap - 1
            /\ \E i \in 1..Len(answer.value) : answer.value[i].line = k
    /\ \E k \in 1..Len(given.file.lines) :
            /\ given.file.lines[k] = "record"
            /\ MalformedBefore(given.file.lines, k) = ParseErrorCap
            /\ \A i \in 1..Len(answer.value) : answer.value[i].line # k


-----------------------------------------------------------------------------
(* Properties of processFiles *)

\* every .json.gz file of the listing is read to its end and none yields a
\* record
NoSurvivor(listing) ==
    \A i \in 1..Len(listing) :
        listing[i].gz => (~listing[i].broken /\ ReadableLines(listing[i].lines) = {})

\* C23: when no record survives, processFiles raises nothing, returns the
\* no-data result (path null, count 0) and leaves export.csv as it was.
C23_NoDataIsNotAnError ==
    [][(procPc = "Called" /\ procFolder = "jobFolder" /\ NoSurvivor(dir))
         => /\ procPc' = "Returned"
            /\ procReturn' = [kind |-> "noData", count |-> 0]
            /\ report' = report]_vars

\* a folder whose only lines are malformed or blank, with the export.csv of
\* an earlier run still in place after the call
C23_Witness ==
    /\ procPc = "Returned"
    /\ procReturn.kind = "noData"
    /\ report = StaleReport
    /\ \E i \in 1..Len(dir) : dir[i].gz /\ ~dir[i].broken /\ dir[i].lines[1] = "malformed"


-----------------------------------------------------------------------------
(* Properties of the downloader's result *)

\* C24: the result that downloadCustomJobExports hands to its caller makes
\* the full list of failed days and the success and failure counts
\* available, not only the ten days of the displayed summary.
C24_FailedDaysHandedToCaller ==
    (dlPc = "Returned" /\ summary.made)
        => {"failedDays", "successCount", "failedCount"} \subseteq ReturnFields(dlReturn)


-----------------------------------------------------------------------------
(* Properties of runAutomation with an existing job *)

ExistingJobUsed == pc # "Idle" /\ lookup \in {"complete", "needsWaiting"}

AllDownloadsFailed ==
    /\ summary.made
    /\ summary.successCount = 0
    /\ Len(summary.failedDays) >= 1

\* C25: when an existing job matches the requested range but none of its
\* day files can be downloaded any more, the run does not go on with the
\* failed downloads only: it creates a new export job for the range.
C25_ExpiredFilesLeadToNewJob ==
    (ExistingJobUsed /\ AllDownloadsFailed) => pc \notin {"Transforming", "Done"}


-----------------------------------------------------------------------------
(* Properties of the argument validation *)

InvalidDates == pc # "Idle" /\ ~ArgumentsValid(args)

NothingBeyondConnectionTest ==
    /\ listed = "none"
    /\ lookup = "none"
    /\ runJob = "none"
    /\ pollPc = "Idle"
    /\ dlPc = "Idle"
    /\ procPc = "Idle"

\* C26: when runAutomation is given explicit dates that fail validation, the
\* error is surfaced at once: no operation of the remote service, the
\* connection test included, is attempted, and the result is the failure of
\* the validation.
C26_InvalidDatesBeforeAnyRemoteCall ==
    InvalidDates =>
        /\ pc # "Connecting"
        /\ raised \in {"none", "arguments"}
        /\ NothingBeyondConnectionTest
        /\ pc = "Done" => ~result.success

\* C26 as the code has it: the connection test comes first; with explicit
\* dates that are malformed, in the wrong order or more than 366 days apart
\* (366 days are accepted) no listing, creation, status or content fetch and
\* no transform is attempted, and the run ends as a failure, of the
\* connection test or of the validation.
C26_InvalidDatesAfterConnectionTest ==
    /\ ArgumentsValid(Args("dates", "", TRUE, 1, MaxRangeDays))
    /\ ~ArgumentsValid(Args("dates", "", TRUE, 1, MaxRangeDays + 1))
    /\ InvalidDates =>
          /\ pc \in {"Connecting", "Done"}
          /\ NothingBeyondConnectionTest
          /\ pc = "Done" => /\ ~result.success
                            /\ raised \in {"connection", "arguments"}
                            /\ result.error = raised

\* a range of 367 days, refused after the connection test has passed
C26_Witness ==
    /\ pc = "Done"
    /\ args.mode = "dates"
    /\ args.wellFormed
    /\ RangeDays(args) = MaxRangeDays + 1
    /\ raised = "arguments"
    /\ ~result.success


-----------------------------------------------------------------------------
(* Properties of the source-day tag *)

\* the field names the lines themselves carry
OwnKeys == UNION {KeysOf(given.records[i]) : i \in 1..Len(given.records)}

AllCells ==
    {answer.value.cells[r][c] :
        r \in 1..Len(answer.value.sorted), c \in 1..Len(answer.value.columns)}

\* C27: the source-day tag attached to each record is used for ordering
\* only: it adds no column to the report, it appears in no cell, and it
\* neither overwrites nor hides a field that the record itself carries.
C27_TagOnlyOrders ==
    CsvDone =>
        /\ Range(answer.value.columns) = OwnKeys
        /\ \A i \in 1..Len(given.records) :
                given.records[i].fileDate # NoDate
                    => DayText(given.records[i].fileDate) \notin AllCells
        /\ \A i \in 1..Len(given.records) : \A k \in 1..Len(given.records[i].fields) :
                LET field == given.records[i].fields[k]
                IN  \E r \in 1..Len(answer.value.sorted) :
                        CellUnder(r, field[1]) = Cell(field[1], field[2])

\* what the tag does: it is the field fileDate of every record, so the
\* report always has the column fileDate, whose cell is the day of the file
\* of the record (empty for a file name without a day), also for a record
\* that carries a fileDate of its own
C27_TagIsAColumn ==
    CsvDone =>
        /\ Range(answer.value.columns) = OwnKeys \cup {KeyFileDate}
        /\ \A r \in 1..Len(answer.value.sorted) :
                CellUnder(r, KeyFileDate)
                    = IF answer.value.sorted[r].fileDate = NoDate THEN <<>>
                      ELSE DayText(answer.value.sorted[r].fileDate)


-----------------------------------------------------------------------------
(* Properties of the downloader's counters *)

Progress == completedCount + failedCount

\* the days of the tasks that ended with every attempt failed, in the order
\* of daysToDownload
RECURSIVE DaysOfFailedTasks(_)
DaysOfFailedTasks(i) ==
    IF i > Len(task) THEN <<>>
    ELSE (IF task[i].pc = "Failed" THEN <<reconciled.daysToDownload[i]>> ELSE <<>>)
         \o DaysOfFailedTasks(i + 1)

\* C28: whatever the order in which the day tasks complete, the progress
\* value completedCount + failedCount never decreases and never exceeds the
\* number of days, and once all tasks have finished the succeeded and the
\* failed days add up to daysToDownload, the counters equal the counts
\* derived from the results, and the failed-day list is exactly the days
\* whose every attempt failed, in daysToDownload order.
C28_CountersAgreeWithResults ==
    /\ [](/\ Progress <= Len(task)
          /\ completedCount = Cardinality({i \in 1..Len(task) : task[i].pc = "Succeeded"})
          /\ failedCount = Cardinality({i \in 1..Len(task) : task[i].pc = "Failed"})
          /\ (dlPc = "Returned" /\ summary.made) =>
                /\ \A i \in 1..Len(task) : Terminal(task[i])
                /\ summary.successCount + Len(summary.failedDays)
                     = Len(reconciled.daysToDownload)
                /\ completedCount = summary.successCount
                /\ failedCount = Len(summary.failedDays)
                /\ summary.failedDays = DaysOfFailedTasks(1))
    /\ [][completedCount' + failedCount' >= Progress]_vars

\* both days have failed for good
C28_Witness ==
    /\ dlPc = "Returned"
    /\ summary.made
    /\ Len(summary.failedDays) = 2
    /\ summary.failedDays[1] < summary.failedDays[2]
    /\ failedCount = 2


-----------------------------------------------------------------------------
(* Properties of the backoff *)

\* C29: the wait before retry i, after the i-th failed attempt of a day
\* (1 <= i <= maxRetries), is 1000 * 2^(i-1) milliseconds; a task waits only
\* between a failed attempt and the next attempt, and no wait follows the
\* final failed attempt: the task fails straight from that attempt.
C29_ExponentialBackoff ==
    /\ [](\A i \in 1..Len(task) :
            /\ task[i].pc = "Backoff" =>
                  /\ task[i].failures = task[i].attempts
                  /\ task[i].failures \in 1..maxRetries
                  /\ task[i].delay = 1000 * 2 ^ (task[i].failures - 1)
            /\ task[i].pc = "Failed" =>
                  /\ task[i].failures = maxRetries + 1
                  /\ task[i].delay = IF maxRetries = 0 THEN 0
                                     ELSE 1000 * 2 ^ (maxRetries - 1))
    /\ [][\A i \in 1..Len(task) :
            /\ (Len(task') = Len(task) /\ task'[i].pc = "Failed" /\ task[i].pc # "Failed")
                  => task[i].pc = "Attempting"
            /\ (Len(task') = Len(task) /\ task[i].pc = "Backoff" /\ task'[i].pc # "Backoff")
                  => (task'[i].pc = "Attempting" /\ task'[i].attempts = task[i].attempts + 1)]_vars

\* a day waiting 4000 ms after its third failed attempt
C29_Witness ==
    \E i \in 1..Len(task) :
        /\ task[i].pc = "Backoff"
        /\ task[i].failures = 3
        /\ task[i].delay = 4000


-----------------------------------------------------------------------------
(* Properties of the files the day tasks write *)

\* the path the day task i writes to
PathOfTask(i) == TargetPath(reconciled.daysToDownload[i])

\* C30: at every moment of the fan-out no two distinct day tasks write to
\* the same file path: the path export_<day>.json.gz depends on the day
\* only, and daysToDownload holds each day at most once.
C30_TasksOwnDistinctPaths ==
    dlPc = "FanOut" =>
        /\ NoDuplicates(reconciled.daysToDownload)
        /\ Len(task) = Len(reconciled.daysToDownload)
        /\ \A i, j \in 1..Len(task) : i # j => PathOfTask(i) # PathOfTask(j)

\* two day tasks with an attempt under way at the same moment, each having
\* opened its file before
C30_Witness ==
    /\ dlPc = "FanOut"
    /\ Len(task) = 2
    /\ task[1].pc = "Attempting"
    /\ task[2].pc = "Attempting"
    /\ files = Range(reconciled.daysToDownload)


-----------------------------------------------------------------------------
(* Properties of the three groups of the window *)

WindowDays(w) == {d \in w.start..w.end : TRUE}

\* the days of the window that the job lists both as Completed and as
\* CompletedEmptyRecords
ListedTwice(job, w) ==
    WindowDays(w) \cap ListedDays(job, {"Completed"})
                  \cap ListedDays(job, {"CompletedEmptyRecords"})

\* the days of the window that the job lists under neither status
Uncovered(job, w) ==
    WindowDays(w) \ (ListedDays(job, {"Completed"})
                       \cup ListedDays(job, {"CompletedEmptyRecords"}))

\* C31: with a user window every day of the window is counted in exactly
\* one of daysToDownload, emptyDaysInRange and the days outside the job's
\* scope, for every job detail list: the three counts sum to
\* totalDaysInRange and daysOutsideJobScope is never negative.
C31_GroupsPartitionTheWindow ==
    (Reconciled /\ given.window.has) =>
        LET r == answer.value
        IN  /\ Len(r.daysToDownload) + Len(r.emptyDaysInRange) + r.daysOutsideJobScope
                 = r.totalDaysInRange
            /\ r.daysOutsideJobScope >= 0
            /\ Range(r.daysToDownload) \cap Range(r.emptyDaysInRange) = {}
            /\ r.daysOutsideJobScope = Cardinality(Uncovered(given.job, given.window))

\* C31 as the code has it: the three counts always sum to totalDaysInRange,
\* and daysOutsideJobScope is the number of days of the window the job lists
\* under neither status less the number it lists under both; it is negative
\* when the latter is the larger, and the groups partition the window when
\* no day of the window is listed under both.
C31_GroupsPartitionUnlessListedTwice ==
    (Reconciled /\ given.window.has) =>
        LET r == answer.value
            twice == ListedTwice(given.job, given.window)
            uncovered == Uncovered(given.job, given.window)
        IN  /\ Len(r.daysToDownload) + Len(r.emptyDaysInRange) + r.daysOutsideJobScope
                 = r.totalDaysInRange
            /\ r.daysOutsideJobScope = Cardinality(uncovered) - Cardinality(twice)
            /\ Range(r.daysToDownload) \cap Range(r.emptyDaysInRange) = twice
            /\ twice = {} => r.daysOutsideJobScope >= 0

\* a window whose every day the job lists under both statuses
C31_Witness ==
    /\ Reconciled
    /\ given.window = Window(1, MaxDay)
    /\ ListedTwice(given.job, given.window) = WindowDays(given.window)
    /\ answer.value.daysOutsideJobScope = 0 - MaxDay


-----------------------------------------------------------------------------
(* Properties of a file whose stream fails *)

\* the records of the files that can be read, in the order of the listing
RECURSIVE RecordsOfReadable(_, _)
RecordsOfReadable(listing, i) ==
    IF i > Len(listing) THEN <<>>
    ELSE (IF listing[i].gz /\ ~listing[i].broken
          THEN ParseLines(listing[i], i, 1, 0) ELSE <<>>)
         \o RecordsOfReadable(listing, i + 1)

\* C32: when reading or decompressing one artifact file fails, processFiles
\* still ends with its report or its no-data result: the failed file gives
\* no record and the records of every other file are all there.
C32_StreamFailureIsFatalForThatFileOnly ==
    [][(procPc = "Called" /\ procFolder = "jobFolder"
          /\ \E i \in 1..Len(dir) : dir[i].gz /\ dir[i].broken)
         => /\ procPc' \in {"Returned", "Threw"}
            /\ allRecords' = RecordsOfReadable(dir, 1)
            /\ procPc' = "Returned" =>
                  IF RecordsOfReadable(dir, 1) = <<>>
                  THEN procReturn'.kind = "noData"
                  ELSE /\ procReturn' = [kind |-> "written",
                                         count |-> Len(RecordsOfReadable(dir, 1))]
                       /\ report' = SortRecords(RecordsOfReadable(dir, 1))
            /\ procPc' = "Threw" => RecordsOfReadable(dir, 1) # <<>>]_vars

\* C32, where the failure is raised inside the loop over the lines: the
\* records of the other files are merged and the failed file gives none.
C32_CaughtFailureDropsTheFileOnly ==
    (procPc = "Returned" /\ \E i \in 1..Len(dir) : dir[i].gz /\ dir[i].broken) =>
        /\ allRecords = RecordsOfReadable(dir, 1)
        /\ \A k \in 1..Len(allRecords) : ~dir[allRecords[k].file].broken


-----------------------------------------------------------------------------
(* Termination of the poller *)

\* every await of the poller is answered: the timers of export.js 327 and
\* 434 fire, and getJob returns or throws
SpecPollFair == PollInit /\ [][PollNext]_vars /\ WF_vars(PollNext)

PollEnded == pollPc \in {"Complete", "TimedOut"}

\* C33: for every pollIntervalMs >= 0 and every maxWaitMinutes >= 0, and
\* every sequence of status responses, pollExportJobCompletion eventually
\* returns a job or fails with the timeout error.
C33_PollerTerminates == <>PollEnded

\* C33 for a positive interval: elapsed grows at every sleep, so the loop
\* ends once it has reached the maximum.
C33_PollerTerminatesWithPositiveInterval == (pollIntervalMs > 0) => <>PollEnded

\* with an interval of 0 the sleep leaves elapsed where it was
C33_ZeroIntervalNeverAdvances ==
    [][(pollPc = "Sleeping" /\ pollIntervalMs = 0) => elapsed' = elapsed]_vars


-----------------------------------------------------------------------------
(* The first status check of the poller *)

\* what the service answers to the first status check
FirstResponse == IF Len(remote.first) >= 1 THEN remote.first[1] ELSE remote.rest

\* the job satisfies a completion condition when polling starts
ReadyAtStart == TickReturns(GetJob(FirstResponse, jobSid), expectedDays)

\* C34: the poller checks the status at least once before it can time out:
\* a job that is ready when polling starts is returned, for every
\* maxWaitMinutes >= 0, and never reported as timed out.
C34_OneCheckBeforeTimeout ==
    pollPc = "TimedOut" => (ticks >= 1 /\ ~ReadyAtStart)

\* C34 as the code has it: for maxWaitMinutes > 0 the first check always
\* happens and a job that is ready at the start is returned by it; for
\* maxWaitMinutes = 0 the loop is never entered, no status is fetched and
\* the poller times out whether the job is ready or not.
C34_OneCheckUnlessMaximumIsZero ==
    /\ (pollPc = "TimedOut" /\ maxWaitMinutes > 0) => (ticks >= 1 /\ ~ReadyAtStart)
    /\ (pollPc \in {"Sleeping", "Complete", "TimedOut"} /\ maxWaitMinutes > 0 /\ ReadyAtStart)
          => (pollPc = "Complete" /\ ticks = 1 /\ elapsed = 0)
    /\ (pollPc \in {"Sleeping", "Complete", "TimedOut"} /\ maxWaitMinutes = 0)
          => (pollPc = "TimedOut" /\ ticks = 0 /\ fetched = [ok |-> FALSE, job |-> NoJob])

\* a ready job reported as timed out without a status check
C34_Witness ==
    /\ pollPc = "TimedOut"
    /\ maxWaitMinutes = 0
    /\ ReadyAtStart
    /\ ticks = 0


-----------------------------------------------------------------------------
(* Waiting for an existing job, part_001 223-241: findExistingJob and the
   poller look at the same jobs of the service through their own listings *)

\* where the job of the range stands among the jobs of the service
WaitPositions ==
    {1, GetJobListLimit, GetJobListLimit + 1, FindListLimit, FindListLimit + 1}

\* a job of another range
Filler == RangeJob(OtherSid, 1, MaxDay + 1, TRUE, DetailsFive)

\* the jobs of the service: the job of the range at position p, reporting
\* the details ds
Roster(p, ds) ==
    Listing([i \in 1..p |-> IF i < p THEN Filler
                            ELSE RangeJob(PolledSid, 1, MaxDay, TRUE, ds)])

\* the service reports the details `before` at the lookup and at the first
\* k status checks, and the details `after` from then on
WaitCalls ==
    {[fn |-> "waitForExisting", position |-> p, before |-> b, k |-> k, after |-> a] :
        p \in WaitPositions, b \in {DetailsZero, DetailsNoCount, DetailsFive},
        k \in 0..2, a \in {DetailsZero, DetailsThree, DetailsFive}}

\* part_001 223-241: findExistingJob answers, and the poller is called for
\* a job that needs waiting
WaitLookup ==
    /\ given.fn = "waitForExisting"
    /\ answer = NoCall
    /\ LET found == FindExistingJob(Roster(given.position, given.before), TRUE,
                                    1, MaxDay, MaxDay)
       IN  /\ answer' = [fn |-> "waitForExisting", value |-> found]
           /\ IF found.kind = "found" /\ found.needsWaiting
              THEN /\ pollPc' = "Initial"
                   /\ jobSid' = found.jobSid
                   /\ expectedDays' = MaxDay
                   /\ maxWaitMinutes' = RunMaxWaitMinutes
                   /\ pollIntervalMs' = RunPollIntervalMs
                   /\ initialWaitMs' = RunInitialWaitMs
                   /\ elapsed' = 0
                   /\ fetched' = [ok |-> FALSE, job |-> NoJob]
                   /\ pollResult' = NoJob
                   /\ remote' = [first |-> [i \in 1..given.k |->
                                              Roster(given.position, given.before)],
                                 rest |-> Roster(given.position, given.after)]
                   /\ ticks' = 0
              ELSE UNCHANGED pollVars
    /\ UNCHANGED given

WaitInit ==
    /\ given \in WaitCalls
    /\ answer = NoCall
    /\ pollPc = "Idle"
    /\ jobSid = "none"
    /\ expectedDays = 0
    /\ maxWaitMinutes = 0
    /\ pollIntervalMs = 0
    /\ initialWaitMs = 0
    /\ elapsed = 0
    /\ fetched = [ok |-> FALSE, job |-> NoJob]
    /\ pollResult = NoJob
    /\ remote = NoScript
    /\ ticks = 0
    /\ dlPc = "Idle"
    /\ jobIdentifier = ""
    /\ window = NoWindow
    /\ maxRetries = 0
    /\ reconciled = NothingReconciled
    /\ task = <<>>
    /\ results = <<>>
    /\ completedCount = 0
    /\ failedCount = 0
    /\ files = {}
    /\ summary = NoSummary
    /\ dlReturn = "none"
    \* processFiles is not called
    /\ procPc = "Idle"
    /\ procFolder = "undefined"
    /\ dir = <<>>
    /\ allRecords = <<>>
    /\ report = <<>>
    /\ procReturn = NoReturn
    \* runAutomation is not running
    /\ pc = "Idle"
    /\ args = NoArgs
    /\ lookup = "none"
    /\ runJob = "none"
    /\ raised = "none"
    /\ result = NoResult
    /\ listed = "none"

WaitNext ==
    \/ WaitLookup /\ UNCHANGED <<dlVars, procVars, runVars>>
    \/ PollInitialWait /\ UNCHANGED <<dlVars, procVars, runVars, callVars>>
    \/ PollTick /\ UNCHANGED <<dlVars, procVars, runVars, callVars>>
    \/ PollSleep /\ UNCHANGED <<dlVars, procVars, runVars, callVars>>
    \/ PollTimeout /\ UNCHANGED <<dlVars, procVars, runVars, callVars>>

SpecWait == WaitInit /\ [][WaitNext]_vars

\* the poller was called for the job findExistingJob found
Waited ==
    /\ given.fn = "waitForExisting"
    /\ answer # NoCall
    /\ answer.value.kind = "found"
    /\ answer.value.needsWaiting

\* the service reports the job with all its days ready from the status
\* check k + 1 on, long before the deadline
ReportedReady == CompletedDays(given.after) >= MaxDay

\* C35: when findExistingJob returns a job that needs waiting and the
\* service reports that job ready at some status check before the
\* deadline, the poller returns that job and does not time out, wherever
\* the job stands among the jobs findExistingJob lists.
C35_FoundJobIsReturnedWhenReady ==
    (Waited /\ ReportedReady) =>
        /\ pollPc # "TimedOut"
        /\ pollPc = "Complete" => pollResult.jobSid = answer.value.jobSid

\* C35 as the code has it: the poller returns the job when it is among the
\* first 20 jobs of the service, at the first status check that finds it
\* ready; a job findExistingJob found further down is never seen by getJob,
\* and the poller times out after all its status checks have failed.
C35_FoundJobIsReturnedWithinGetJobLimit ==
    Waited =>
        /\ (ReportedReady /\ given.position <= GetJobListLimit)
              => /\ pollPc # "TimedOut"
                 /\ pollPc = "Complete" => /\ pollResult.jobSid = answer.value.jobSid
                                           /\ ticks = given.k + 1
        /\ given.position > GetJobListLimit
              => /\ pollPc # "Complete"
                 /\ pollPc \in {"Sleeping", "TimedOut"} => ~fetched.ok

\* a job at position 21 that is ready at the first status check and
\* reported as timed out
C35_Witness ==
    /\ Waited
    /\ ReportedReady
    /\ given.position = GetJobListLimit + 1
    /\ given.k = 0
    /\ pollPc = "TimedOut"
    /\ elapsed = MaxWaitMs(RunMaxWaitMinutes)


-----------------------------------------------------------------------------
(* Properties of the job the downloader picks *)

MyJobFound == given.fn = "findMyJob" /\ answer # NoCall /\ answer.value # 0

\* C36: the job whose days the downloader reconciles and downloads is the
\* job whose jobSid equals the identifier it was given, whatever other jobs
\* and friendly names the listing holds.
C36_PicksTheJobOfThatSid ==
    MyJobFound => given.jobs[answer.value].jobSid = given.ident

\* C36 as the code has it: the job picked is the first of the listing whose
\* jobSid equals the identifier or whose friendly name contains it, so it is
\* the job of that SID when no job listed before it has such a name.
C36_PicksTheFirstJobOfThatSidOrName ==
    (given.fn = "findMyJob" /\ answer # NoCall) =>
        LET matches == {i \in 1..Len(given.jobs) :
                           \/ given.jobs[i].jobSid = given.ident
                           \/ (given.jobs[i].hasName
                                 /\ given.ident \in given.jobs[i].nameMentions)}
        IN  /\ answer.value = 0 <=> matches = {}
            /\ answer.value # 0 =>
                  /\ answer.value \in matches
                  /\ \A i \in matches : answer.value <= i


-----------------------------------------------------------------------------
(* Properties of the streams of an attempt *)

\* some step of the fan-out can be taken: an attempt can settle, a backoff
\* can end, or Promise.all can resolve
FanOutCanGoOn ==
    \/ \E i \in TaskIds : ENABLED AttemptSettles(i) \/ ENABLED BackoffEnds(i)
    \/ ENABLED DlSummary

\* C37: every attempt settles as a success or a failure whatever its
\* streams do, so every dispatched day task gets a terminal result and the
\* fan-out completes: the fan-out is never left with a task that is not
\* terminal and no step to take.
C37_EveryAttemptSettles ==
    dlPc = "FanOut" => FanOutCanGoOn

\* C37 as the code has it: the fan-out can go on as long as no attempt's
\* response body has failed; an attempt whose body failed stays pending, its
\* task gets no result, and the downloader neither returns nor throws.
C37_AttemptSettlesUnlessBodyFails ==
    /\ (dlPc = "FanOut" /\ \A i \in TaskIds : task[i].pc # "Unsettled") => FanOutCanGoOn
    /\ \A i \in TaskIds :
          task[i].pc = "Unsettled"
              => /\ dlPc = "FanOut"
                 /\ results[i] = "pending"
                 /\ ~ENABLED DlSummary
                 /\ reconciled.daysToDownload[i] \in files


-----------------------------------------------------------------------------
(* A run over a job folder that already holds files, part_001 278-286: the
   downloader creates the folders if they are missing (download.js 238-247)
   and processFiles reads every .json.gz file of the files folder *)

\* the days whose file an earlier run left in the files folder
RerunCalls == {[fn |-> "rerun", stale |-> S] : S \in SUBSET Days}

\* the days whose download succeeded in this run
SucceededDays ==
    {reconciled.daysToDownload[i] : i \in {j \in 1..Len(task) : task[j].pc = "Succeeded"}}

\* the files folder after the downloader, listed by name: the file of a day
\* that succeeded is whole, a file opened by an attempt of a day that did
\* not succeed is cut short, and a file this run did not open is as the
\* earlier run left it
RerunListing ==
    LET days == Ascending(given.stale \cup files)
    IN  [i \in 1..Len(days) |->
            File(days[i], TRUE, days[i] \in files \ SucceededDays, <<"record">>)]

\* part_001 279-286: the downloader has returned, processFiles is called
\* with what it returned
RerunHandsOver ==
    /\ dlPc = "Returned"
    /\ procPc = "Idle"
    /\ procPc' = "Called"
    /\ procFolder' = dlReturn
    /\ dir' = IF dlReturn = "jobFolder" THEN RerunListing ELSE <<>>
    /\ UNCHANGED <<allRecords, report, procReturn>>

RerunInit ==
    /\ given \in RerunCalls
    /\ answer = NoCall
    /\ dlPc = "Called"
    /\ jobIdentifier = PolledSid
    /\ window \in WindowChoices
    /\ maxRetries = MaxRetries
    /\ reconciled = NothingReconciled
    /\ task = <<>>
    /\ results = <<>>
    /\ completedCount = 0
    /\ failedCount = 0
    /\ files = {}
    /\ summary = NoSummary
    /\ dlReturn = "none"
    \* processFiles is not called
    /\ procPc = "Idle"
    /\ procFolder = "undefined"
    /\ dir = <<>>
    /\ allRecords = <<>>
    /\ report = <<>>
    /\ procReturn = NoReturn
    /\ pollPc = "Idle"
    /\ jobSid = "none"
    /\ expectedDays = 0
    /\ maxWaitMinutes = 0
    /\ pollIntervalMs = 0
    /\ initialWaitMs = 0
    /\ elapsed = 0
    /\ fetched = [ok |-> FALSE, job |-> NoJob]
    /\ pollResult = NoJob
    /\ remote = NoScript
    /\ ticks = 0
    \* runAutomation is not running
    /\ pc = "Idle"
    /\ args = NoArgs
    /\ lookup = "none"
    /\ runJob = "none"
    /\ raised = "none"
    /\ result = NoResult
    /\ listed = "none"

RerunNext ==
    \/ DlSetup /\ UNCHANGED <<pollVars, procVars, runVars, callVars>>
    \/ \E i \in 1..Len(task) : AttemptSettles(i) /\ UNCHANGED <<pollVars, procVars, runVars, callVars>>
    \/ \E i \in 1..Len(task) : BackoffEnds(i) /\ UNCHANGED <<pollVars, procVars, runVars, callVars>>
    \/ DlSummary /\ UNCHANGED <<pollVars, procVars, runVars, callVars>>
    \/ RerunHandsOver /\ UNCHANGED <<pollVars, dlVars, runVars, callVars>>
    \/ ProcessFiles /\ UNCHANGED <<pollVars, dlVars, runVars, callVars>>

SpecRerun == RerunInit /\ [][RerunNext]_vars

ReportWritten == procPc = "Returned" /\ procReturn.kind = "written"

\* C38: every record of the report of a run comes from the file of a day
\* that is in the run's daysToDownload and whose download succeeded in that
\* run; files of failed attempts and files already in the files folder give
\* no row.
C38_RowsComeFromDaysDownloadedInThisRun ==
    (given.fn = "rerun" /\ ReportWritten) =>
        \A k \in 1..Len(report) : report[k].fileDate \in SucceededDays

\* C38 as the code has it: every .json.gz file of the files folder is read,
\* so the rows come from the days downloaded in this run and from the files
\* of an earlier run that this run did not open; a file cut short by a
\* failed attempt gives no row.
C38_RowsComeFromEveryReadableFile ==
    (given.fn = "rerun" /\ ReportWritten) =>
        /\ {report[k].fileDate : k \in 1..Len(report)}
              = SucceededDays \cup (given.stale \ files)
        /\ \A k \in 1..Len(report) : report[k].fileDate \notin files \ SucceededDays


-----------------------------------------------------------------------------
(* Properties of the creation of a job *)

\* createExportJob has returned a job in this run
JobWasCreated == lookup = "notFound" /\ runJob # "none"

-----------------------------------------------------------------------------
(* Properties of a run with nothing to download *)

\* the downloader found the job and no day to download, and returned
\* without a value
NothingToDo == dlPc = "Returned" /\ dlReturn = "undefined"

\* C40: when the job is complete and no day is to be downloaded,
\* runAutomation ends with a success result without data, not with a
\* failure: the transform does not turn "nothing to do" into an error.
C40_NothingToDoEndsInSuccess ==
    (pc = "Done" /\ NothingToDo) => (result.success /\ result.recordCount = 0)

\* C40 as the code has it: the downloader returns undefined, processFiles
\* is called with it, finds no such folder and throws, and the run ends
\* with the failure of the transform.
C40_NothingToDoEndsInTransformFailure ==
    /\ (pc = "Transforming" /\ NothingToDo) => procFolder = "undefined"
    /\ (pc = "Done" /\ NothingToDo)
          => /\ procPc = "Threw"
             /\ raised = "transform"
             /\ ~result.success
             /\ report = <<>>

====
